---- MODULE Spec2Model ----
(***************************************************************************)
(* The decomposition workflow engine of fissio-demo:                       *)
(*   - WorkflowController.executeWorkflow (lib/ai-agent), the async        *)
(*     generator that classifies and expands the pending leaves of a tree; *)
(*   - the decompose-stream route, which writes one frame per event on a   *)
(*     ReadableStream with safeEnqueue / safeClose;                        *)
(*   - the read loop of the client store (useFlowStore), which splits the  *)
(*     chunks it reads into lines and applies the frames it can parse.     *)
(*                                                                         *)
(* A node id is a sequence: "root" is <<"root">> and the template string   *)
(* `${prefix}-${k}` is Append(prefix, k).  An optional value (null or      *)
(* undefined in the source) is a sequence of length 0 or 1.                *)
(***************************************************************************)
EXTENDS Integers, Sequences, FiniteSets, TLC

(* ------------------------------ bounds --------------------------------- *)
\* a session's tree never grows beyond this many nodes
MaxNodes == 4
\* a session is followed through at most this many node-level expansions
MaxExpansions == 3
\* terminate-decomposition is requested at most this many times
MaxRequests == 2
\* a response body read by the client carries at most this many frames
MaxFrames == 2
\* a call of the store that consumes a stream is followed through this many reads
MaxReads == 2
\* Date.now() advances at most this far
MaxClock == 1

\* ai-agent.ts:394  const maxIterations = 10
maxIterations == 10

\* two runs of executeWorkflow on the one workflowController of the process
Sessions == {"s1", "s2"}

(* ------------------------------ trees ---------------------------------- *)
\* AITreeNode (types): id, content, children (null or an array); the text the
\* service writes is one value
AINode(id, kids, isNull) ==
  [id |-> id, content |-> "generated", children |-> kids, nullChildren |-> isNull]

\* TreeNode (types): children === null is nullChildren = TRUE;
\* canDirectlyAnswer absent is FALSE (the code only ever sets it to true)
TreeNode(id, content, kids, isNull, expanded, status, isLeaf, cda) ==
  [id |-> id, content |-> content, children |-> kids, nullChildren |-> isNull,
   expanded |-> expanded, status |-> status, isLeaf |-> isLeaf, canDirectlyAnswer |-> cda]

\* executeWorkflow: the single-node tree a session starts with
InitialTree == TreeNode(<<"root">>, "inputText", <<>>, TRUE, FALSE, "pending", TRUE, FALSE)

RECURSIVE convertToTreeNode(_, _)
convertToTreeNode(aiNode, status) ==
  TreeNode(aiNode.id,
           aiNode.content,
           [i \in 1..Len(aiNode.children) |-> convertToTreeNode(aiNode.children[i], status)],
           aiNode.nullChildren,
           FALSE,
           status,
           aiNode.nullChildren \/ Len(aiNode.children) = 0,
           FALSE)

RECURSIVE getAllNodes(_)
getAllNodes(node) ==
  LET RECURSIVE rest(_)
      rest(i) == IF i > Len(node.children) THEN <<>>
                 ELSE getAllNodes(node.children[i]) \o rest(i + 1)
  IN <<node>> \o rest(1)

getAllNodeIds(node) == LET all == getAllNodes(node) IN {all[i].id : i \in 1..Len(all)}

RECURSIVE getLeafNodes(_)
getLeafNodes(node) ==
  IF node.nullChildren \/ Len(node.children) = 0 THEN <<node>>
  ELSE LET RECURSIVE rest(_)
           rest(i) == IF i > Len(node.children) THEN <<>>
                      ELSE getLeafNodes(node.children[i]) \o rest(i + 1)
       IN rest(1)

\* slip: the update is applied at the top node only, the recursion is missing
updateNodeInTree_TopOnly(tree, nodeId, status, cda) ==
  IF tree.id = nodeId
    THEN [tree EXCEPT !.status = status, !.canDirectlyAnswer = cda]
    ELSE tree

RECURSIVE updateNodeInTree(_, _, _, _)
updateNodeInTree(tree, nodeId, status, cda) ==
  IF tree.id = nodeId
    THEN [tree EXCEPT !.status = status, !.canDirectlyAnswer = cda]
  ELSE IF ~tree.nullChildren
    THEN [tree EXCEPT !.children =
            [i \in 1..Len(tree.children) |-> updateNodeInTree(tree.children[i], nodeId, status, cda)]]
  ELSE tree

RECURSIVE replaceNodeInTree(_, _, _)
replaceNodeInTree(tree, nodeId, newNode) ==
  IF tree.id = nodeId
    THEN newNode
  ELSE IF ~tree.nullChildren
    THEN [tree EXCEPT !.children =
            [i \in 1..Len(tree.children) |-> replaceNodeInTree(tree.children[i], nodeId, newNode)]]
  ELSE tree

\* the while loop of assignUniqueId: first of prefix, prefix-1, prefix-2, ... not in ids
RECURSIVE whileHas(_, _, _, _)
whileHas(newId, counter, prefix, ids) ==
  IF newId \in ids THEN whileHas(Append(prefix, counter), counter + 1, prefix, ids)
  ELSE newId

\* slip: the node keeps the id the service chose and its subtree is not walked
assignUniqueId_KeepIds(node, prefix, allExistingIds) ==
  [node |-> node, ids |-> allExistingIds \cup {node.id}]

\* assignUniqueId threads the mutable set allExistingIds through a depth-first
\* walk; the result is the relabelled node and the set after the walk
RECURSIVE assignUniqueId(_, _, _)
assignUniqueId(node, prefix, allExistingIds) ==
  LET newId == whileHas(prefix, 1, prefix, allExistingIds)
      ids1 == allExistingIds \cup {newId}
      RECURSIVE walk(_, _, _)
      walk(i, acc, ids) ==
        IF i > Len(node.children) THEN [kids |-> acc, ids |-> ids]
        ELSE LET r == assignUniqueId(node.children[i], Append(newId, i), ids)
             IN walk(i + 1, Append(acc, r.node), r.ids)
      w == IF node.nullChildren THEN [kids |-> <<>>, ids |-> ids1] ELSE walk(1, <<>>, ids1)
  IN [node |-> [node EXCEPT !.id = newId, !.children = w.kids], ids |-> w.ids]

ensureUniqueIds(node, existingTree, baseId) ==
  assignUniqueId(node, baseId, getAllNodeIds(existingTree)).node

\* Math.round on a non-negative quotient p / t * 100
Round100(p, t) == (200 * p + t) \div (2 * t)

\* state.currentTree is the argument itself and is not repeated in the record
createWorkflowState(tree) ==
  LET all == getAllNodes(tree)
      pendingNodes == {i \in 1..Len(all) : all[i].status \in {"pending", "need_decomposition"}}
      completedNodes == {i \in 1..Len(all) : all[i].status \in {"completed", "can_answer"}}
  IN [totalNodes |-> Len(all),
      processedNodes |-> Cardinality(completedNodes),
      isComplete |-> pendingNodes = {}]

(* --------------------- external services (inputs) ---------------------- *)
AILeaf(id) == AINode(id, <<>>, TRUE)
AIEmpty(id) == AINode(id, <<>>, FALSE)

\* what decomposeTask can resolve to: any shape, any ids (duplicates, "root",
\* an id that looks like an allocated one)
AIResponses ==
  { AILeaf(<<"root">>), AILeaf(<<"a">>), AILeaf(<<"root", 1>>),
    AIEmpty(<<"a">>),
    AINode(<<"a">>, <<AILeaf(<<"a">>)>>, FALSE),
    AINode(<<"root">>, <<AILeaf(<<"root">>), AILeaf(<<"root", 2>>)>>, FALSE),
    AINode(<<"a">>, <<AINode(<<"a">>, <<AILeaf(<<"a", 1>>)>>, FALSE)>>, FALSE) }

\* what a failing service call rejects with (always an Error instance)
ServiceErrors == {"ValidationError", "ProviderError"}

(* ------------------------------ events --------------------------------- *)
None == <<>>
Some(x) == <<x>>

WorkflowEvent(type, message, nodeId, result, tree, state, progress, error) ==
  [type |-> type, message |-> message, nodeId |-> nodeId, result |-> result, tree |-> tree,
   state |-> state, progress |-> progress, error |-> error]

TerminalTypes == {"complete", "terminated", "error"}

(* ------------------------------- state --------------------------------- *)
VARIABLES
  shouldTerminate,    \* WorkflowController.shouldTerminate of the singleton
  pc,                 \* where each session's generator is suspended
  currentTree,        \* executeWorkflow: let currentTree
  iterationCount,     \* executeWorkflow: let iterationCount
  pendingLeafNodes,   \* the array the for-of loop of the current pass iterates
  leafIdx,            \* position of the for-of loop in pendingLeafNodes
  expansions,         \* number of node-level expansions that resolved so far
  calls,              \* number of calls of the services that have not returned yet
  isStreamClosed,     \* route: let isStreamClosed
  isClosing,          \* route: let isClosing
  controller,         \* state of the ReadableStream controller of the response
  lastEvent,          \* the event each generator yielded last
  nTerminal,          \* number of terminal events each generator has yielded
  eventAfterTerminal, \* the generator yielded an event after a terminal one
  lastFrame,          \* the frame enqueued last on each response stream
  frameAfterTerminal, \* a frame was enqueued after a terminal frame
  raised,             \* an error escaped safeEnqueue
  closeCalls,         \* route: how many times controller.close() was called
  loopFault,          \* route: a statement of the for-await body is about to throw
  endpoint,           \* the route that runs the session: decompose-stream or decompose
  response,           \* decompose route: the JSON response, once it is sent
  flagSeen,           \* terminateDecomposition ran while the session was in flight
  failure,            \* the service call whose rejection reached the outer catch
  thrown,             \* the message of the error that call rejected with
  treeAtRequest,      \* currentTree of a session whose call was in flight when the flag
                      \* went from false to true, until the flag is reset
  announced,          \* node ids a decompose_node event was yielded for
  answered,           \* node ids whose classification returned canDirectlyAnswer
  requests,           \* number of terminate-decomposition requests so far
  wire,               \* client: the chunks the response body arrives in
  nRead,              \* client: how many of them reader.read() has delivered
  sent,               \* client: the frames the server put on the wire
  applied,            \* client: the frames the read loop dispatched on
  reader,             \* client: where startStreamDecomposition is
  store,              \* client: the zustand store
  streams,            \* client: the calls of startStreamDecomposition / redecomposeFromNode
  latest,             \* client: the call that was made last
  now                 \* client: Date.now()

GenVars == <<currentTree, iterationCount, pendingLeafNodes, leafIdx, expansions>>
RouteVars == <<isStreamClosed, isClosing, controller, lastFrame, frameAfterTerminal, raised,
               closeCalls, loopFault, endpoint, response>>
EventVars == <<lastEvent, nTerminal, eventAfterTerminal, announced>>

ClientVars == <<wire, nRead, sent, applied, reader, store, streams, latest, now>>

vars == <<shouldTerminate, pc, GenVars, calls, RouteVars, EventVars, flagSeen, failure, thrown, treeAtRequest,
          answered, requests, ClientVars>>

\* useFlowStore: the initial values of the fields the read loop touches
InitialStore ==
  [treeData |-> None, isDecomposing |-> FALSE, decomposingProgress |-> 0,
   decomposingMessage |-> "", currentAbortController |-> None, isNewDecomposition |-> TRUE]

ServerInit ==
  /\ shouldTerminate = FALSE
  /\ pc = [s \in Sessions |-> "idle"]
  /\ currentTree = [s \in Sessions |-> InitialTree]
  /\ iterationCount = [s \in Sessions |-> 0]
  /\ pendingLeafNodes = [s \in Sessions |-> <<>>]
  /\ leafIdx = [s \in Sessions |-> 0]
  /\ expansions = [s \in Sessions |-> 0]
  /\ calls = [s \in Sessions |-> 0]
  /\ isStreamClosed = [s \in Sessions |-> FALSE]
  /\ isClosing = [s \in Sessions |-> FALSE]
  /\ controller = [s \in Sessions |-> "readable"]
  /\ lastEvent = [s \in Sessions |-> None]
  /\ nTerminal = [s \in Sessions |-> 0]
  /\ eventAfterTerminal = [s \in Sessions |-> FALSE]
  /\ lastFrame = [s \in Sessions |-> None]
  /\ frameAfterTerminal = [s \in Sessions |-> FALSE]
  /\ raised = [s \in Sessions |-> FALSE]
  /\ closeCalls = [s \in Sessions |-> 0]
  /\ loopFault = [s \in Sessions |-> FALSE]
  /\ response = [s \in Sessions |-> None]
  /\ flagSeen = [s \in Sessions |-> FALSE]
  /\ failure = [s \in Sessions |-> "none"]
  /\ thrown = [s \in Sessions |-> None]
  /\ treeAtRequest = [s \in Sessions |-> None]
  /\ announced = [s \in Sessions |-> {}]
  /\ answered = [s \in Sessions |-> {}]
  /\ requests = 0

\* the calls of the store that consume a response stream
Fetches == {"f1", "f2"}

\* a call that has not been made yet
NoStream ==
  [phase |-> "none", kind |-> "none", nodeId |-> None, reads |-> 0, last |-> None, ended |-> FALSE,
   tokens |-> {}]

StoreInit ==
  /\ store = InitialStore
  /\ streams = [k \in Fetches |-> NoStream]
  /\ latest = None
  /\ now = 0

Init ==
  /\ ServerInit
  /\ endpoint = [s \in Sessions |-> "decompose-stream"]
  /\ wire = <<>>
  /\ nRead = 0
  /\ sent = <<>>
  /\ applied = <<>>
  /\ reader = "idle"
  /\ StoreInit

(* ----------------------- decompose-stream route ------------------------ *)
\* the object a frame carries as JSON (nodeId, judgementResult, mode and state
\* are not read by the consumer and are left out)
Frame(type, message, treeData, progress, error) ==
  [type |-> type, message |-> message, treeData |-> treeData, progress |-> progress,
   error |-> error]

\* the switch of the for-await body: the frame written for an event
streamData(event) ==
  LET st == event.state[1]
      pct == Round100(st.processedNodes, st.totalNodes)
  IN CASE event.type = "start" ->
            Frame("start", event.message, None, Some(0), None)
       [] event.type \in {"decompose_node", "judge_node"} ->
            Frame("progress", event.message, None, Some(pct), None)
       [] event.type = "update_tree" ->
            Frame("update", event.message, event.tree, Some(pct), None)
       [] event.type = "progress" ->
            Frame("progress", event.message, None, event.progress, None)
       [] event.type = "complete" ->
            Frame("complete", event.message, event.tree, Some(100), None)
       [] event.type = "terminated" ->
            Frame("terminated", event.message, event.tree, Some(pct), None)
       [] event.type = "error" ->
            Frame("error", None, None, None, event.error)

\* slip: the try/catch around controller.enqueue is missing
safeEnqueue_NoCatch(closed, closing, ctl) ==
  IF ~closed /\ ~closing
    THEN IF ctl = "readable"
           THEN [closed |-> closed, closing |-> closing, written |-> TRUE, raised |-> FALSE]
           ELSE [closed |-> closed, closing |-> closing, written |-> FALSE, raised |-> TRUE]
    ELSE [closed |-> closed, closing |-> closing, written |-> FALSE, raised |-> FALSE]

\* safeEnqueue: the flags after the call, whether the chunk went out, whether
\* an error escaped.  controller.enqueue throws 'Controller is already closed'
\* once the stream is closed or the consumer has cancelled it; the catch sets
\* both flags and swallows that error.
safeEnqueue(closed, closing, ctl) ==
  IF ~closed /\ ~closing
    THEN IF ctl = "readable"
           THEN [closed |-> closed, closing |-> closing, written |-> TRUE, raised |-> FALSE]
           ELSE [closed |-> TRUE, closing |-> TRUE, written |-> FALSE, raised |-> FALSE]
    ELSE [closed |-> closed, closing |-> closing, written |-> FALSE, raised |-> FALSE]

\* slip: safeClose does not look at its flags and calls controller.close()
\* every time
safeClose_NoFlags(closed, closing, ctl) ==
  [closed |-> TRUE, closing |-> TRUE,
   ctl |-> IF ctl = "readable" THEN "closed" ELSE ctl, calls |-> 1]

\* safeClose: the flags and the controller after the call, and the number of
\* calls of controller.close() it made (a call on a controller that is not
\* readable throws, which the catch swallows)
safeClose(closed, closing, ctl) ==
  IF ~closed /\ ~closing
    THEN [closed |-> TRUE, closing |-> TRUE,
          ctl |-> IF ctl = "readable" THEN "closed" ELSE ctl, calls |-> 1]
    ELSE [closed |-> closed, closing |-> closing, ctl |-> ctl, calls |-> 0]

\* slip: the loop does not look at the flags before it handles an event
routeBody_NoBreak(closed, closing, ctl, event) ==
  LET e == safeEnqueue(closed, closing, ctl)
      c == safeClose(e.closed, e.closing, ctl)
  IN IF event.type \in TerminalTypes
       THEN [closed |-> c.closed, closing |-> c.closing, ctl |-> c.ctl,
             written |-> e.written, raised |-> e.raised, stop |-> TRUE,
             calls |-> c.calls]
       ELSE [closed |-> e.closed, closing |-> e.closing, ctl |-> ctl,
             written |-> e.written, raised |-> e.raised, stop |-> FALSE,
             calls |-> 0]

\* the for-await body of the route on one event: stop is TRUE when the route
\* leaves the loop (break on a closed stream, return after a terminal event)
\* after a break the statement behind the loop runs: safeClose() (route.ts:158)
routeBody(closed, closing, ctl, event) ==
  IF closed \/ closing
    THEN LET c == safeClose(closed, closing, ctl)
         IN [closed |-> c.closed, closing |-> c.closing, ctl |-> c.ctl,
             written |-> FALSE, raised |-> FALSE, stop |-> TRUE, calls |-> c.calls]
    ELSE LET e == safeEnqueue(closed, closing, ctl)
             c == safeClose(e.closed, e.closing, ctl)
         IN IF event.type \in TerminalTypes
              THEN [closed |-> c.closed, closing |-> c.closing, ctl |-> c.ctl,
                    written |-> e.written, raised |-> e.raised, stop |-> TRUE,
                    calls |-> c.calls]
              ELSE [closed |-> e.closed, closing |-> e.closing, ctl |-> ctl,
                    written |-> e.written, raised |-> e.raised, stop |-> FALSE,
                    calls |-> 0]

\* what the catch of the route turns a thrown error into
TransportError == "TransportError"

\* the frame the catch of the route writes (route.ts:165-168)
catchFrame == Frame("error", None, None, None, Some(TransportError))

\* the catch of the route (route.ts:160-172), entered when a statement of the
\* loop body throws before the event's frame is written: an error frame if the
\* stream is still open, then safeClose()
routeCatch(closed, closing, ctl) ==
  LET e == safeEnqueue(closed, closing, ctl)
      c == safeClose(e.closed, e.closing, ctl)
  IN [closed |-> c.closed, closing |-> c.closing, ctl |-> c.ctl,
      written |-> e.written, raised |-> e.raised, stop |-> TRUE, calls |-> c.calls]

IsTerminalFrame(f) == f /= None /\ f[1].type \in TerminalTypes

\* The generator of session s yields event and the route's loop body runs on
\* it; next is where the generator suspends when the route asks for the
\* following event.  When the route leaves the loop the generator is returned.
(* -------------------------- decompose route ---------------------------- *)
\* messages of errors that reach the catch of the decompose route: a provider
\* whose key is not configured (its message names the environment variable)
\* and the route's own error for a run that ended without a result
MissingKeyError == "MissingKeyError"
NoFinalResult == "NoFinalResult"

\* error.message.includes('MOONSHOT_API_KEY')
includesApiKey(message) == message = MissingKeyError

\* error.message.includes('工作流执行')
includesWorkflow(message) == message = NoFinalResult

\* NextResponse.json(body, {status}); a body has root and mode, or error
Response(status, root, error) == [status |-> status, root |-> root, error |-> error]

\* the catch of the decompose route: one of three fixed texts
decomposeCatch(message) ==
  IF includesApiKey(message) THEN Response(500, None, Some("missing API key"))
  ELSE IF includesWorkflow(message) THEN Response(503, None, Some("service unavailable"))
  ELSE Response(500, None, Some("request failed"))

decomposeResponse_AlwaysTree(event) ==
  Response(200, event.tree, None)

\* the response of the decompose route once its loop is left on `event`: the
\* tree of a complete event; the catch for an error event and for a run that
\* ended with finalResult still null
decomposeResponse(event) ==
  IF event.type = "complete" THEN Response(200, event.tree, None)
  ELSE IF event.type = "error" THEN decomposeCatch(event.error[1])
  ELSE decomposeCatch(NoFinalResult)

\* the for-await body of the decompose route: nothing is written to a stream;
\* complete breaks and error throws
decomposeBody(closed, closing, ctl, event) ==
  [closed |-> closed, closing |-> closing, ctl |-> ctl, written |-> FALSE, raised |-> FALSE,
   stop |-> event.type \in {"complete", "error"}, calls |-> 0]

Yield(s, event, next) ==
  LET r == IF endpoint[s] = "decompose"
             THEN decomposeBody(isStreamClosed[s], isClosing[s], controller[s], event)
           ELSE IF loopFault[s]
             THEN routeCatch(isStreamClosed[s], isClosing[s], controller[s])
             ELSE routeBody(isStreamClosed[s], isClosing[s], controller[s], event)
      frame == IF loopFault[s] THEN catchFrame ELSE streamData(event)
  IN /\ lastEvent' = [lastEvent EXCEPT ![s] = Some(event)]
     /\ nTerminal' = [nTerminal EXCEPT ![s] = IF event.type \in TerminalTypes THEN @ + 1 ELSE @]
     /\ eventAfterTerminal' = [eventAfterTerminal EXCEPT ![s] = @ \/ nTerminal[s] > 0]
     /\ announced' = [announced EXCEPT ![s] =
                        IF event.type = "decompose_node" THEN @ \cup {event.nodeId[1]} ELSE @]
     /\ pc' = [pc EXCEPT ![s] = IF r.stop THEN "done" ELSE next]
     /\ isStreamClosed' = [isStreamClosed EXCEPT ![s] = r.closed]
     /\ isClosing' = [isClosing EXCEPT ![s] = r.closing]
     /\ controller' = [controller EXCEPT ![s] = r.ctl]
     /\ lastFrame' = [lastFrame EXCEPT ![s] = IF r.written THEN Some(frame) ELSE @]
     /\ frameAfterTerminal' = [frameAfterTerminal EXCEPT ![s] =
                                 @ \/ (r.written /\ IsTerminalFrame(lastFrame[s]))]
     /\ raised' = [raised EXCEPT ![s] = @ \/ r.raised]
     /\ closeCalls' = [closeCalls EXCEPT ![s] = @ + r.calls]
     /\ response' = [response EXCEPT ![s] =
                       IF endpoint[s] = "decompose" /\ (r.stop \/ next = "done")
                         THEN Some(decomposeResponse(event)) ELSE @]
     /\ UNCHANGED <<loopFault, endpoint>>

(* --------------------------- executeWorkflow --------------------------- *)
StateOf(s) == Some(createWorkflowState(currentTree[s]))

TerminatedEvent(tree, message) ==
  WorkflowEvent("terminated", message, None, None, Some(tree), Some(createWorkflowState(tree)), None, None)

\* slip: the last event of a finished run is given the type of a progress event
CompleteEvent_AsProgress(tree) ==
  WorkflowEvent("progress", Some("progress"), None, None, Some(tree), Some(createWorkflowState(tree)),
                Some(100), None)

CompleteEvent(tree) ==
  WorkflowEvent("complete", Some("complete"), None, None, Some(tree), Some(createWorkflowState(tree)), None, None)

\* the catch of executeWorkflow: error.message, no tree, no state
ErrorEvent(err) ==
  WorkflowEvent("error", None, None, None, None, None, None, Some(err))

\* slip: a pass iterates over every leaf, whatever its status
pendingLeavesOf_AllLeaves(tree) ==
  getLeafNodes(tree)

\* the pending leaves a pass of the while loop iterates over
pendingLeavesOf(tree) ==
  SelectSeq(getLeafNodes(tree), LAMBDA n : n.status = "pending" /\ n.isLeaf)

\* slip: executeWorkflow does not call resetTerminationFlag
Start_NoReset(s) ==
  /\ pc[s] = "idle"
  /\ shouldTerminate' = shouldTerminate
  /\ Yield(s, WorkflowEvent("start", Some("starting"), None, None, None, StateOf(s), None, None), "start")
  /\ treeAtRequest' = [t \in Sessions |-> None]
  /\ UNCHANGED <<GenVars, calls, flagSeen, failure, thrown, answered, requests, ClientVars>>

\* executeWorkflow is called: resets the flag, yields start
Start(s) ==
  /\ pc[s] = "idle"
  /\ shouldTerminate' = FALSE
  /\ Yield(s, WorkflowEvent("start", Some("starting"), None, None, None, StateOf(s), None, None), "start")
  /\ treeAtRequest' = [t \in Sessions |-> None]
  /\ UNCHANGED <<GenVars, calls, flagSeen, failure, thrown, answered, requests, ClientVars>>

\* resumed after start: yields decompose_node for the root
AnnounceRoot(s) ==
  /\ pc[s] = "start"
  /\ Yield(s, WorkflowEvent("decompose_node", Some("decomposing root"), Some(<<"root">>), None, None, StateOf(s), None, None),
           "decompose_root")
  /\ UNCHANGED <<shouldTerminate, GenVars, calls, flagSeen, failure, thrown, treeAtRequest, answered, requests, ClientVars>>

\* resumed after decompose_node(root): first checkpoint, then the root call
CallRootDecompose(s) ==
  /\ pc[s] = "decompose_root"
  /\ IF shouldTerminate
       THEN /\ Yield(s, TerminatedEvent(currentTree[s], Some("terminated")), "done")
            /\ UNCHANGED calls
       ELSE /\ pc' = [pc EXCEPT ![s] = "await_root"]
            /\ calls' = [calls EXCEPT ![s] = @ + 1]
            /\ UNCHANGED <<EventVars, RouteVars>>
  /\ UNCHANGED <<shouldTerminate, GenVars, flagSeen, failure, thrown, treeAtRequest, answered, requests, ClientVars>>

rootTreeOf_ZeroBased(ai, tree) ==
  LET newRootTree == convertToTreeNode(ai, "pending")
      relabelled ==
        IF ~newRootTree.nullChildren
          THEN [newRootTree EXCEPT
                  !.id = <<"root">>,
                  !.children = [i \in 1..Len(newRootTree.children) |->
                                  ensureUniqueIds(newRootTree.children[i], tree, <<"root", i - 1>>)]]
          ELSE newRootTree
  IN [relabelled EXCEPT !.expanded = TRUE]

\* the tree the root expansion builds from the service's answer
rootTreeOf(ai, tree) ==
  LET newRootTree == convertToTreeNode(ai, "pending")
      relabelled ==
        IF ~newRootTree.nullChildren
          THEN [newRootTree EXCEPT
                  !.id = <<"root">>,
                  !.children = [i \in 1..Len(newRootTree.children) |->
                                  ensureUniqueIds(newRootTree.children[i], tree, <<"root", i>>)]]
          ELSE newRootTree
  IN [relabelled EXCEPT !.expanded = TRUE]

\* decomposeTask(inputText, inputText, mode, true) resolves
RootDecomposed(s, ai) ==
  /\ pc[s] = "await_root"
  /\ LET t == rootTreeOf(ai, currentTree[s])
     IN /\ Len(getAllNodes(t)) <= MaxNodes
        /\ currentTree' = [currentTree EXCEPT ![s] = t]
        /\ Yield(s, WorkflowEvent("update_tree", Some("root decomposed"), None, None, Some(t),
                                  Some(createWorkflowState(t)), None, None), "update_tree")
  /\ calls' = [calls EXCEPT ![s] = @ - 1]
  /\ UNCHANGED <<shouldTerminate, iterationCount, pendingLeafNodes, leafIdx, expansions,
                 flagSeen, failure, thrown, treeAtRequest, answered, requests, ClientVars>>

\* decomposeTask for the root rejects: nothing catches it before the outer catch
RootDecomposeFailed(s, err) ==
  /\ pc[s] = "await_root"
  /\ Yield(s, ErrorEvent(err), "done")
  /\ failure' = [failure EXCEPT ![s] = "root_expansion"]
  /\ thrown' = [thrown EXCEPT ![s] = Some(err)]
  /\ calls' = [calls EXCEPT ![s] = @ - 1]
  /\ UNCHANGED <<shouldTerminate, GenVars, flagSeen, treeAtRequest, answered, requests, ClientVars>>

\* slip: the per-leaf checkpoint is missing
EnterLeaf_NoCheckpoint(s, leaves, i, count) ==
  /\ Yield(s, WorkflowEvent("judge_node", Some("judging"), Some(leaves[i].id), Some(FALSE), None,
                            StateOf(s), None, None), "await_judge")
  /\ pendingLeafNodes' = [pendingLeafNodes EXCEPT ![s] = leaves]
  /\ leafIdx' = [leafIdx EXCEPT ![s] = i]
  /\ iterationCount' = [iterationCount EXCEPT ![s] = count]
  /\ calls' = [calls EXCEPT ![s] = IF pc'[s] = "await_judge" THEN @ + 1 ELSE @]
  /\ UNCHANGED <<currentTree, expansions>>

\* slip: judgeNode is called for all remaining leaves of the pass at once
EnterLeaf_Concurrent(s, leaves, i, count) ==
  IF shouldTerminate
    THEN /\ Yield(s, TerminatedEvent(currentTree[s], Some("terminated, result kept")), "done")
         /\ UNCHANGED <<GenVars, calls>>
    ELSE /\ Yield(s, WorkflowEvent("judge_node", Some("judging"), Some(leaves[i].id), Some(FALSE), None,
                                   StateOf(s), None, None), "await_judge")
         /\ pendingLeafNodes' = [pendingLeafNodes EXCEPT ![s] = leaves]
         /\ leafIdx' = [leafIdx EXCEPT ![s] = i]
         /\ iterationCount' = [iterationCount EXCEPT ![s] = count]
         /\ calls' = [calls EXCEPT ![s] = IF pc'[s] = "await_judge" THEN @ + Len(leaves) - i + 1 ELSE @]
         /\ UNCHANGED <<currentTree, expansions>>

\* the for-of body up to the classification call, for the leaf at position i
\* of the pass's array: per-leaf checkpoint, judge_node (pre-call), judgeNode
EnterLeaf(s, leaves, i, count) ==
  IF shouldTerminate
    THEN /\ Yield(s, TerminatedEvent(currentTree[s], Some("terminated, result kept")), "done")
         /\ UNCHANGED <<GenVars, calls>>
    ELSE /\ Yield(s, WorkflowEvent("judge_node", Some("judging"), Some(leaves[i].id), Some(FALSE), None,
                                   StateOf(s), None, None), "await_judge")
         /\ pendingLeafNodes' = [pendingLeafNodes EXCEPT ![s] = leaves]
         /\ leafIdx' = [leafIdx EXCEPT ![s] = i]
         /\ iterationCount' = [iterationCount EXCEPT ![s] = count]
         /\ calls' = [calls EXCEPT ![s] = IF pc'[s] = "await_judge" THEN @ + 1 ELSE @]
         /\ UNCHANGED <<currentTree, expansions>>

\* slip: the checkpoint at the head of the while loop is missing
EnterPass_NoCheckpoint(s, count) ==
  IF count < maxIterations
    THEN LET leaves == pendingLeavesOf(currentTree[s])
         IN IF Len(leaves) = 0
              THEN /\ Yield(s, CompleteEvent(currentTree[s]), "done")
                   /\ iterationCount' = [iterationCount EXCEPT ![s] = count]
                   /\ UNCHANGED <<currentTree, pendingLeafNodes, leafIdx, expansions, calls>>
              ELSE EnterLeaf(s, leaves, 1, count)
    ELSE /\ Yield(s, CompleteEvent(currentTree[s]), "done")
         /\ iterationCount' = [iterationCount EXCEPT ![s] = count]
         /\ UNCHANGED <<currentTree, pendingLeafNodes, leafIdx, expansions, calls>>

EnterPass_NoCeiling(s, count) ==
  IF count >= 0
    THEN IF shouldTerminate
           THEN /\ Yield(s, TerminatedEvent(currentTree[s], Some("terminated, result kept")), "done")
                /\ iterationCount' = [iterationCount EXCEPT ![s] = count]
                /\ UNCHANGED <<currentTree, pendingLeafNodes, leafIdx, expansions, calls>>
           ELSE LET leaves == pendingLeavesOf(currentTree[s])
                IN IF Len(leaves) = 0
                     THEN /\ Yield(s, CompleteEvent(currentTree[s]), "done")
                          /\ iterationCount' = [iterationCount EXCEPT ![s] = count]
                          /\ UNCHANGED <<currentTree, pendingLeafNodes, leafIdx, expansions, calls>>
                     ELSE EnterLeaf(s, leaves, 1, count)
    ELSE /\ Yield(s, CompleteEvent(currentTree[s]), "done")
         /\ iterationCount' = [iterationCount EXCEPT ![s] = count]
         /\ UNCHANGED <<currentTree, pendingLeafNodes, leafIdx, expansions, calls>>

EnterPass_OnePass(s, count) ==
  IF count < 1
    THEN IF shouldTerminate
           THEN /\ Yield(s, TerminatedEvent(currentTree[s], Some("terminated, result kept")), "done")
                /\ iterationCount' = [iterationCount EXCEPT ![s] = count]
                /\ UNCHANGED <<currentTree, pendingLeafNodes, leafIdx, expansions, calls>>
           ELSE LET leaves == pendingLeavesOf(currentTree[s])
                IN IF Len(leaves) = 0
                     THEN /\ Yield(s, CompleteEvent(currentTree[s]), "done")
                          /\ iterationCount' = [iterationCount EXCEPT ![s] = count]
                          /\ UNCHANGED <<currentTree, pendingLeafNodes, leafIdx, expansions, calls>>
                     ELSE EnterLeaf(s, leaves, 1, count)
    ELSE /\ Yield(s, CompleteEvent(currentTree[s]), "done")
         /\ iterationCount' = [iterationCount EXCEPT ![s] = count]
         /\ UNCHANGED <<currentTree, pendingLeafNodes, leafIdx, expansions, calls>>

\* the head of the while loop with iterationCount = count
EnterPass(s, count) ==
  IF count < maxIterations
    THEN IF shouldTerminate
           THEN /\ Yield(s, TerminatedEvent(currentTree[s], Some("terminated, result kept")), "done")
                /\ iterationCount' = [iterationCount EXCEPT ![s] = count]
                /\ UNCHANGED <<currentTree, pendingLeafNodes, leafIdx, expansions, calls>>
           ELSE LET leaves == pendingLeavesOf(currentTree[s])
                IN IF Len(leaves) = 0
                     THEN /\ Yield(s, CompleteEvent(currentTree[s]), "done")
                          /\ iterationCount' = [iterationCount EXCEPT ![s] = count]
                          /\ UNCHANGED <<currentTree, pendingLeafNodes, leafIdx, expansions, calls>>
                     ELSE EnterLeaf(s, leaves, 1, count)
    ELSE /\ Yield(s, CompleteEvent(currentTree[s]), "done")
         /\ iterationCount' = [iterationCount EXCEPT ![s] = count]
         /\ UNCHANGED <<currentTree, pendingLeafNodes, leafIdx, expansions, calls>>

\* resumed after the root's update_tree: iterationCount = 0, first pass
FirstPass(s) ==
  /\ pc[s] = "update_tree"
  /\ EnterPass(s, 0)
  /\ UNCHANGED <<shouldTerminate, flagSeen, failure, thrown, treeAtRequest, answered, requests, ClientVars>>

\* resumed after progress: next leaf of the pass, or iterationCount++ and the
\* next pass
NextLeaf(s) ==
  /\ pc[s] = "progress"
  /\ IF leafIdx[s] < Len(pendingLeafNodes[s])
       THEN EnterLeaf(s, pendingLeafNodes[s], leafIdx[s] + 1, iterationCount[s])
       ELSE EnterPass(s, iterationCount[s] + 1)
  /\ UNCHANGED <<shouldTerminate, flagSeen, failure, thrown, treeAtRequest, answered, requests, ClientVars>>

leafNode(s) == pendingLeafNodes[s][leafIdx[s]]

\* judgeNode resolves: can_answer branch, or decompose_node and the node call
Judged(s, canDirectlyAnswer) ==
  /\ pc[s] = "await_judge"
  /\ IF canDirectlyAnswer
       THEN LET t == updateNodeInTree(currentTree[s], leafNode(s).id, "can_answer", TRUE)
            IN /\ currentTree' = [currentTree EXCEPT ![s] = t]
               /\ Yield(s, WorkflowEvent("judge_node", Some("can answer"), Some(leafNode(s).id), Some(TRUE), None,
                                         Some(createWorkflowState(t)), None, None), "result")
       ELSE /\ Yield(s, WorkflowEvent("decompose_node", Some("decomposing node"), Some(leafNode(s).id), None, None,
                                      StateOf(s), None, None), "await_node")
            /\ UNCHANGED currentTree
  /\ answered' = [answered EXCEPT ![s] = IF canDirectlyAnswer THEN @ \cup {leafNode(s).id} ELSE @]
  /\ calls' = [calls EXCEPT ![s] = IF pc'[s] = "await_node" THEN @ ELSE @ - 1]
  /\ UNCHANGED <<shouldTerminate, iterationCount, pendingLeafNodes, leafIdx, expansions,
                 flagSeen, failure, thrown, treeAtRequest, requests, ClientVars>>

\* slip: a rejected classification is handled like a rejected node expansion
JudgeFailed_Degrade(s, err) ==
  /\ pc[s] = "await_judge"
  /\ LET t == updateNodeInTree(currentTree[s], leafNode(s).id, "can_answer", TRUE)
     IN /\ currentTree' = [currentTree EXCEPT ![s] = t]
        /\ Yield(s, WorkflowEvent("judge_node", Some("decomposition failed"), Some(leafNode(s).id), Some(TRUE), None,
                                  Some(createWorkflowState(t)), None, None), "result")
  /\ failure' = [failure EXCEPT ![s] = "classification"]
  /\ thrown' = [thrown EXCEPT ![s] = Some(err)]
  /\ calls' = [calls EXCEPT ![s] = @ - 1]
  /\ UNCHANGED <<shouldTerminate, iterationCount, pendingLeafNodes, leafIdx, expansions,
                 flagSeen, treeAtRequest, answered, requests, ClientVars>>

\* judgeNode rejects: outer catch
JudgeFailed(s, err) ==
  /\ pc[s] = "await_judge"
  /\ Yield(s, ErrorEvent(err), "done")
  /\ failure' = [failure EXCEPT ![s] = "classification"]
  /\ thrown' = [thrown EXCEPT ![s] = Some(err)]
  /\ calls' = [calls EXCEPT ![s] = @ - 1]
  /\ UNCHANGED <<shouldTerminate, GenVars, flagSeen, treeAtRequest, answered, requests, ClientVars>>

\* the tree after a node-level expansion put its subtree in the leaf's place
nodeTreeOf(ai, tree, leafId) ==
  LET newNode == ensureUniqueIds(convertToTreeNode(ai, "pending"), tree, leafId)
  IN replaceNodeInTree(tree, leafId, [newNode EXCEPT !.expanded = TRUE])

\* decomposeTask(leafNode.content, inputText, mode, false) resolves, in a
\* session followed for at most maxExp expansions and trees of maxNodes nodes
NodeDecomposedWithin(s, ai, maxExp, maxNodes) ==
  /\ pc[s] = "await_node"
  /\ expansions[s] < maxExp
  /\ expansions' = [expansions EXCEPT ![s] = @ + 1]
  /\ calls' = [calls EXCEPT ![s] = @ - 1]
  /\ LET t == nodeTreeOf(ai, currentTree[s], leafNode(s).id)
     IN /\ Len(getAllNodes(t)) <= maxNodes
        /\ currentTree' = [currentTree EXCEPT ![s] = t]
        /\ Yield(s, WorkflowEvent("update_tree", Some("node decomposed"), None, None, Some(t),
                                  Some(createWorkflowState(t)), None, None), "result")
  /\ UNCHANGED <<shouldTerminate, iterationCount, pendingLeafNodes, leafIdx,
                 flagSeen, failure, thrown, treeAtRequest, answered, requests, ClientVars>>

NodeDecomposed(s, ai) == NodeDecomposedWithin(s, ai, MaxExpansions, MaxNodes)

\* slip: the inner try/catch is missing and the rejection reaches the outer catch
NodeDecomposeFailed_NoInnerCatch(s, err) ==
  /\ pc[s] = "await_node"
  /\ Yield(s, ErrorEvent(err), "done")
  /\ calls' = [calls EXCEPT ![s] = @ - 1]
  /\ UNCHANGED <<shouldTerminate, GenVars, flagSeen, failure, thrown, treeAtRequest, answered, requests, ClientVars>>

\* decomposeTask for a leaf rejects: the inner catch degrades the node
NodeDecomposeFailed(s, err) ==
  /\ pc[s] = "await_node"
  /\ calls' = [calls EXCEPT ![s] = @ - 1]
  /\ LET t == updateNodeInTree(currentTree[s], leafNode(s).id, "can_answer", TRUE)
     IN /\ currentTree' = [currentTree EXCEPT ![s] = t]
        /\ Yield(s, WorkflowEvent("judge_node", Some("decomposition failed"), Some(leafNode(s).id), Some(TRUE), None,
                                  Some(createWorkflowState(t)), None, None), "result")
  /\ UNCHANGED <<shouldTerminate, iterationCount, pendingLeafNodes, leafIdx, expansions,
                 flagSeen, failure, thrown, treeAtRequest, answered, requests, ClientVars>>

\* resumed after the leaf's result: the progress event
ReportProgress(s) ==
  /\ pc[s] = "result"
  /\ LET state == createWorkflowState(currentTree[s])
         progress == Round100(state.processedNodes, state.totalNodes)
     IN Yield(s, WorkflowEvent("progress", Some("progress"), None, None, None, Some(state), Some(progress), None),
              "progress")
  /\ UNCHANGED <<shouldTerminate, GenVars, calls, flagSeen, failure, thrown, treeAtRequest, answered, requests, ClientVars>>

InFlight(s) == pc[s] \notin {"idle", "done"}

\* POST terminate-decomposition: workflowController.terminateDecomposition()
terminateDecomposition ==
  /\ requests < MaxRequests
  /\ requests' = requests + 1
  /\ shouldTerminate' = TRUE
  /\ flagSeen' = [s \in Sessions |-> flagSeen[s] \/ InFlight(s)]
  /\ treeAtRequest' = IF shouldTerminate THEN treeAtRequest
                      ELSE [s \in Sessions |-> IF calls[s] = 1 THEN Some(currentTree[s]) ELSE None]
  /\ UNCHANGED <<pc, GenVars, calls, EventVars, RouteVars, failure, thrown, answered, ClientVars>>

\* the consumer of the response of session s goes away (fetch aborted, reader
\* cancelled): the controller no longer accepts chunks
ConsumerDisconnect(s) ==
  /\ InFlight(s)
  /\ controller[s] = "readable"
  /\ controller' = [controller EXCEPT ![s] = "cancelled"]
  /\ UNCHANGED <<shouldTerminate, pc, GenVars, calls, EventVars, isStreamClosed, isClosing,
                 lastFrame, frameAfterTerminal, raised, closeCalls, loopFault, endpoint,
                 response, flagSeen,
                 failure, thrown, treeAtRequest, answered, requests, ClientVars>>

\* a statement of the loop body of the route of session s will throw on the
\* next event it is given
LoopBodyFault(s) ==
  /\ InFlight(s)
  /\ ~loopFault[s]
  /\ loopFault' = [loopFault EXCEPT ![s] = TRUE]
  /\ UNCHANGED <<shouldTerminate, pc, GenVars, calls, EventVars, isStreamClosed, isClosing, controller,
                 lastFrame, frameAfterTerminal, raised, closeCalls, endpoint, response, flagSeen,
                 failure, thrown, treeAtRequest, answered,
                 requests, ClientVars>>

\* a run of executeWorkflow that is not followed further starts on the same
\* controller: its first statement resets the shared flag
OtherSessionStarts ==
  /\ shouldTerminate
  /\ shouldTerminate' = FALSE
  /\ treeAtRequest' = [t \in Sessions |-> None]
  /\ UNCHANGED <<pc, GenVars, calls, EventVars, RouteVars, flagSeen, failure, thrown, answered, requests, ClientVars>>

\* one session followed in full
Main == "s1"

Next ==
  \/ Start(Main)
  \/ AnnounceRoot(Main)
  \/ CallRootDecompose(Main)
  \/ \E ai \in AIResponses : RootDecomposed(Main, ai)
  \/ \E err \in ServiceErrors : RootDecomposeFailed(Main, err)
  \/ FirstPass(Main)
  \/ NextLeaf(Main)
  \/ \E b \in BOOLEAN : Judged(Main, b)
  \/ \E err \in ServiceErrors : JudgeFailed(Main, err)
  \/ \E ai \in AIResponses : NodeDecomposed(Main, ai)
  \/ \E err \in ServiceErrors : NodeDecomposeFailed(Main, err)
  \/ ReportProgress(Main)
  \/ terminateDecomposition
  \/ ConsumerDisconnect(Main)
  \/ OtherSessionStarts

Spec == Init /\ [][Next]_vars

\* Two sessions followed in full on the one controller, with services that
\* answer every call and consumers that stay connected.
SharedResponses == { AINode(<<"a">>, <<AILeaf(<<"a">>)>>, FALSE) }

NextShared ==
  \/ \E s \in Sessions : Start(s)
  \/ \E s \in Sessions : AnnounceRoot(s)
  \/ \E s \in Sessions : CallRootDecompose(s)
  \/ \E s \in Sessions, ai \in SharedResponses : RootDecomposed(s, ai)
  \/ \E s \in Sessions : FirstPass(s)
  \/ \E s \in Sessions : NextLeaf(s)
  \/ \E s \in Sessions, b \in BOOLEAN : Judged(s, b)
  \/ \E s \in Sessions, ai \in SharedResponses : NodeDecomposed(s, ai)
  \/ \E s \in Sessions : ReportProgress(s)
  \/ terminateDecomposition

SpecShared == Init /\ [][NextShared]_vars

\* One execution of the decompose-stream endpoint with its three ways out of
\* the for-await loop: the return after a terminal event, the break on a
\* closed stream, and the catch.  The generator is resumed whenever the route
\* asks for the next event, and a call of the service resolves or rejects.
Resumed(s) ==
  \/ Start(s)
  \/ AnnounceRoot(s)
  \/ CallRootDecompose(s)
  \/ FirstPass(s)
  \/ NextLeaf(s)
  \/ ReportProgress(s)

\* the pending call of the service returns: it rejects or it resolves
RootReturns(s) ==
  \/ \E err \in ServiceErrors : RootDecomposeFailed(s, err)
  \/ \E ai \in SharedResponses : RootDecomposed(s, ai)

JudgeReturns(s) ==
  \/ \E err \in ServiceErrors : JudgeFailed(s, err)
  \/ \E b \in BOOLEAN : Judged(s, b)

NodeReturns(s) ==
  \/ \E err \in ServiceErrors : NodeDecomposeFailed(s, err)
  \/ \E ai \in SharedResponses : NodeDecomposed(s, ai)

NextRoute ==
  \/ Resumed(Main)
  \/ RootReturns(Main)
  \/ JudgeReturns(Main)
  \/ NodeReturns(Main)
  \/ terminateDecomposition
  \/ ConsumerDisconnect(Main)
  \/ LoopBodyFault(Main)

\* the event loop resumes a generator whose consumer asked for the next event,
\* and every call of the service comes back
SpecRoute ==
  /\ Init /\ [][NextRoute]_vars
  /\ WF_vars(Resumed(Main))
  /\ WF_vars(RootReturns(Main))
  /\ WF_vars(JudgeReturns(Main))
  /\ WF_vars(NodeReturns(Main))

(* ----------------- one session behind either endpoint ------------------ *)
Endpoints == {"decompose-stream", "decompose"}

\* the messages a rejected call of the service carries here
EndpointErrors == ServiceErrors \cup {MissingKeyError}

\* the request reaches one of the two routes
InitEndpoints ==
  /\ ServerInit
  /\ \E e \in Endpoints :
       endpoint = [s \in Sessions |-> IF s = Main THEN e ELSE "decompose-stream"]
  /\ wire = <<>>
  /\ nRead = 0
  /\ sent = <<>>
  /\ applied = <<>>
  /\ reader = "idle"
  /\ StoreInit

NextEndpoints ==
  \/ Resumed(Main)
  \/ \E err \in EndpointErrors : RootDecomposeFailed(Main, err)
  \/ \E ai \in AIResponses : RootDecomposed(Main, ai)
  \/ \E err \in EndpointErrors : JudgeFailed(Main, err)
  \/ \E b \in BOOLEAN : Judged(Main, b)
  \/ \E err \in EndpointErrors : NodeDecomposeFailed(Main, err)
  \/ \E ai \in SharedResponses : NodeDecomposed(Main, ai)
  \/ terminateDecomposition

SpecEndpoints == InitEndpoints /\ [][NextEndpoints]_vars

(* ------------------ a session that runs to the ceiling ----------------- *)
\* answers of decomposeTask that keep a session going: a node with one
\* pending child, and a childless node, which is a pending leaf again
CeilingResponses == { AINode(<<"a">>, <<AILeaf(<<"a">>)>>, FALSE), AILeaf(<<"a">>) }

\* with one pending leaf per pass the while loop allows maxIterations
\* expansions below the root; each adds at most one node to the two of the
\* root expansion
CeilingExpansions == maxIterations + 1
CeilingNodes == maxIterations + 3

NodeReturnsCeiling(s) ==
  \/ \E err \in ServiceErrors : NodeDecomposeFailed(s, err)
  \/ \E ai \in CeilingResponses : NodeDecomposedWithin(s, ai, CeilingExpansions, CeilingNodes)

NextCeiling ==
  \/ Resumed(Main)
  \/ RootReturns(Main)
  \/ JudgeReturns(Main)
  \/ NodeReturnsCeiling(Main)
  \/ terminateDecomposition

SpecCeiling == Init /\ [][NextCeiling]_vars

\* the same session when every expansion below the root answers with a node
\* that has one pending child, so that no pass finds the pending set empty
GrowingResponse == AINode(<<"a">>, <<AILeaf(<<"a">>)>>, FALSE)

NodeReturnsGrowing(s) ==
  \/ \E err \in ServiceErrors : NodeDecomposeFailed(s, err)
  \/ NodeDecomposedWithin(s, GrowingResponse, CeilingExpansions, CeilingNodes)

NextCeilingFair ==
  \/ Resumed(Main)
  \/ RootReturns(Main)
  \/ JudgeReturns(Main)
  \/ NodeReturnsGrowing(Main)
  \/ terminateDecomposition

\* the event loop resumes the generator, and every call of the service
\* comes back
SpecCeilingFair ==
  /\ Init /\ [][NextCeilingFair]_vars
  /\ WF_vars(Resumed(Main))
  /\ WF_vars(RootReturns(Main))
  /\ WF_vars(JudgeReturns(Main))
  /\ WF_vars(NodeReturnsGrowing(Main))

(* ------------------ client store: the stream read loop ----------------- *)
\* The response body is text; a character is a one-token string.  A frame is
\* `data: ` + JSON.stringify(streamData) + two line feeds (route.ts:148).
LF == "\n"
DataPrefix == <<"d", "a", "t", "a", ":", " ">>

\* the trees and the progress values that occur in the frames of a response
WireTrees ==
  << rootTreeOf(AINode(<<"a">>, <<AILeaf(<<"a">>)>>, FALSE), InitialTree),
     rootTreeOf(AINode(<<"a">>, <<AILeaf(<<"a">>), AILeaf(<<"b">>)>>, FALSE), InitialTree) >>
WireProgress == <<0, 33, 100>>
ProgressText == <<"0", "33", "100">>
WireMessages == {"starting", "judging", "node decomposed", "complete", "terminated, result kept"}

\* frames as streamData builds them
WireFrames ==
  { Frame("start", Some("starting"), None, Some(0), None),
    Frame("progress", Some("judging"), None, Some(33), None),
    Frame("update", Some("node decomposed"), Some(WireTrees[1]), Some(0), None),
    Frame("update", Some("node decomposed"), Some(WireTrees[2]), Some(33), None),
    Frame("complete", Some("complete"), Some(WireTrees[2]), Some(100), None),
    Frame("terminated", Some("terminated, result kept"), Some(WireTrees[1]), Some(33), None),
    Frame("error", None, None, None, Some("ProviderError")) }

IndexIn(seq, x) == CHOOSE i \in 1..Len(seq) : seq[i] = x

\* JSON.stringify of a frame: an opening brace, one token per field, a closing
\* brace
JSONstringify(f) ==
  << "{",
     f.type,
     IF f.message = None THEN "null" ELSE f.message[1],
     IF f.treeData = None THEN "null"
       ELSE IF f.treeData[1] = WireTrees[1] THEN "tree1" ELSE "tree2",
     IF f.progress = None THEN "null" ELSE ProgressText[IndexIn(WireProgress, f.progress[1])],
     IF f.error = None THEN "null" ELSE f.error[1],
     "}" >>

\* JSON.parse: the object for a complete text, None where it throws
JSONparse(text) ==
  IF /\ Len(text) = 7
     /\ text[1] = "{" /\ text[7] = "}"
     /\ text[2] \in {"start", "progress", "update", "complete", "terminated", "error"}
     /\ text[3] \in WireMessages \cup {"null"}
     /\ text[4] \in {"tree1", "tree2", "null"}
     /\ text[5] \in {ProgressText[i] : i \in 1..Len(ProgressText)} \cup {"null"}
     /\ text[6] \in ServiceErrors \cup {"null"}
    THEN Some(Frame(text[2],
                    IF text[3] = "null" THEN None ELSE Some(text[3]),
                    IF text[4] = "null" THEN None
                      ELSE IF text[4] = "tree1" THEN Some(WireTrees[1]) ELSE Some(WireTrees[2]),
                    IF text[5] = "null" THEN None
                      ELSE Some(WireProgress[IndexIn(ProgressText, text[5])]),
                    IF text[6] = "null" THEN None ELSE Some(text[6])))
    ELSE None

\* encoder.encode(`data: ${JSON.stringify(streamData)}\n\n`)
encodeFrame(f) == DataPrefix \o JSONstringify(f) \o <<LF, LF>>

RECURSIVE encodeAll(_)
encodeAll(fs) == IF fs = <<>> THEN <<>> ELSE encodeFrame(Head(fs)) \o encodeAll(Tail(fs))

\* String.prototype.split('\n')
split(text) ==
  LET RECURSIVE go(_, _, _)
      go(i, cur, acc) ==
        IF i > Len(text) THEN Append(acc, cur)
        ELSE IF text[i] = LF THEN go(i + 1, <<>>, Append(acc, cur))
        ELSE go(i + 1, Append(cur, text[i]), acc)
  IN go(1, <<>>, <<>>)

startsWith(line, prefix) ==
  Len(line) >= Len(prefix) /\ SubSeq(line, 1, Len(prefix)) = prefix

substring(line, from) == SubSeq(line, from + 1, Len(line))

\* `data.progress || currentState.decomposingProgress`
progressOr(data, current) ==
  IF data.progress /= None /\ data.progress[1] /= 0 THEN data.progress[1] ELSE current

\* `data.message || fallback`
messageOr(data, fallback) == IF data.message /= None THEN data.message[1] ELSE fallback

\* slip: every frame is handled as a carrier of a tree and nothing else
applyFrame_TreeOnly(st, data) ==
  IF data.treeData /= None THEN [st EXCEPT !.treeData = data.treeData] ELSE st

\* the if / else-if chain of startStreamDecomposition on one parsed frame
applyFrame(st, data) ==
  IF data.type = "update" /\ data.treeData /= None
    THEN [st EXCEPT !.treeData = data.treeData,
                    !.decomposingProgress = progressOr(data, st.decomposingProgress),
                    !.decomposingMessage = messageOr(data, st.decomposingMessage),
                    !.isNewDecomposition = FALSE]
  ELSE IF data.type = "progress"
    THEN [st EXCEPT !.decomposingProgress = progressOr(data, st.decomposingProgress),
                    !.decomposingMessage = messageOr(data, st.decomposingMessage)]
  ELSE IF data.type = "complete"
    THEN [st EXCEPT !.treeData = IF data.treeData /= None THEN data.treeData ELSE @,
                    !.isDecomposing = FALSE,
                    !.decomposingProgress = 100,
                    !.decomposingMessage = messageOr(data, "complete"),
                    !.currentAbortController = None,
                    !.isNewDecomposition = FALSE]
  ELSE IF data.type = "terminated"
    THEN [st EXCEPT !.treeData = IF data.treeData /= None THEN data.treeData ELSE @,
                    !.isDecomposing = FALSE,
                    !.decomposingMessage = messageOr(data, "terminated"),
                    !.currentAbortController = None,
                    !.isNewDecomposition = TRUE]
  ELSE IF data.type = "error"
    THEN [st EXCEPT !.isDecomposing = FALSE,
                    !.decomposingProgress = 0,
                    !.decomposingMessage = IF data.error /= None THEN data.error[1]
                                           ELSE "error",
                    !.currentAbortController = None,
                    !.isNewDecomposition = TRUE]
  ELSE st

\* the for-of loop over the lines of one chunk: the store and the list of
\* dispatched frames after it.  A line that does not start with `data: ` is
\* skipped; a line whose JSON.parse throws is logged and skipped.
RECURSIVE applyLines(_, _, _, _)
applyLines(lines, i, st, done) ==
  IF i > Len(lines) THEN [store |-> st, applied |-> done]
  ELSE IF startsWith(lines[i], DataPrefix)
    THEN LET data == JSONparse(substring(lines[i], 6))
         IN IF data /= None
              THEN applyLines(lines, i + 1, applyFrame(st, data[1]), Append(done, data[1]))
              ELSE applyLines(lines, i + 1, st, done)
  ELSE applyLines(lines, i + 1, st, done)

\* `const chunk = decoder.decode(value); const lines = chunk.split('\n')`:
\* each chunk is handled on its own
applyChunk(chunk, st, done) == applyLines(split(chunk), 1, st, done)

ServerVars == <<shouldTerminate, pc, GenVars, calls, RouteVars, EventVars, flagSeen, failure, thrown, treeAtRequest,
                answered, requests>>

\* startStreamDecomposition up to the first reader.read()
startStreamDecomposition ==
  /\ reader = "idle"
  /\ store' = [store EXCEPT !.isDecomposing = TRUE,
                            !.decomposingProgress = 0,
                            !.decomposingMessage = "preparing",
                            !.currentAbortController = Some("abortController"),
                            !.isNewDecomposition = TRUE]
  /\ reader' = "reading"
  /\ UNCHANGED <<ServerVars, wire, nRead, sent, applied, streams, latest, now>>

\* reader.read() resolves with a chunk: the body of the while loop
ReadChunk ==
  /\ reader = "reading"
  /\ nRead < Len(wire)
  /\ LET r == applyChunk(wire[nRead + 1], store, applied)
     IN store' = r.store /\ applied' = r.applied
  /\ nRead' = nRead + 1
  /\ UNCHANGED <<ServerVars, wire, sent, reader, streams, latest, now>>

\* reader.read() resolves with done: break
ReadDone ==
  /\ reader = "reading"
  /\ nRead = Len(wire)
  /\ reader' = "done"
  /\ UNCHANGED <<ServerVars, wire, nRead, sent, applied, store, streams, latest, now>>

\* the frame sequences a response body carries
FrameSeqs == UNION {[1..n -> WireFrames] : n \in 1..MaxFrames}

\* the body delivered whole, or cut in two at any offset
Chunkings(text) ==
  {<<text>>} \cup {<<SubSeq(text, 1, k), SubSeq(text, k + 1, Len(text))>> : k \in 1..(Len(text) - 1)}

InitChunks ==
  /\ ServerInit
  /\ endpoint = [s \in Sessions |-> "decompose-stream"]
  /\ sent \in FrameSeqs
  /\ wire \in Chunkings(encodeAll(sent))
  /\ nRead = 0
  /\ applied = <<>>
  /\ reader = "idle"
  /\ StoreInit

NextChunks ==
  \/ startStreamDecomposition
  \/ ReadChunk
  \/ ReadDone

SpecChunks == InitChunks /\ [][NextChunks]_vars

(* ------------- client store: sessions and re-decomposition ------------- *)
\* redecomposeFromNode / clearChildren: the target keeps no children
RECURSIVE clearChildren(_, _)
clearChildren(treeNode, nodeId) ==
  IF treeNode.id = nodeId
    THEN [treeNode EXCEPT !.children = <<>>, !.nullChildren = FALSE]
  ELSE IF ~treeNode.nullChildren
    THEN [treeNode EXCEPT !.children =
            [i \in 1..Len(treeNode.children) |-> clearChildren(treeNode.children[i], nodeId)]]
  ELSE treeNode

\* `${nodeId}__${Date.now()}__`: the text of an id is its sequence of tokens
subtreeIdPrefix(nodeId, t) == nodeId \o <<"__", t, "__">>

\* slip: the subtree keeps the ids the stream gave it
remapChildIds_KeepIds(node, prefix) == node

RECURSIVE remapChildIds(_, _)
remapChildIds(node, prefix) ==
  [node EXCEPT !.id = prefix \o node.id,
               !.children = [i \in 1..Len(node.children) |-> remapChildIds(node.children[i], prefix)]]

\* slip: the frame's tree is taken for the whole tree, as in a fresh session
replaceNodeSubtree_WholeTree(treeNode, nodeId, treeData, prefix) == treeData

\* replaceNodeSubtree: the children of the frame's tree, relabelled, become the
\* children of the target
RECURSIVE replaceNodeSubtree(_, _, _, _)
replaceNodeSubtree(treeNode, nodeId, treeData, prefix) ==
  IF treeNode.id = nodeId
    THEN [treeNode EXCEPT
            !.children = [i \in 1..Len(treeData.children) |-> remapChildIds(treeData.children[i], prefix)],
            !.nullChildren = FALSE]
  ELSE IF ~treeNode.nullChildren
    THEN [treeNode EXCEPT !.children =
            [i \in 1..Len(treeNode.children) |->
               replaceNodeSubtree(treeNode.children[i], nodeId, treeData, prefix)]]
  ELSE treeNode

\* the recursive helper of updateTreeNodeContent
RECURSIVE updateContent(_, _, _)
updateContent(treeNode, nodeId, newContent) ==
  IF treeNode.id = nodeId
    THEN [treeNode EXCEPT !.content = newContent]
  ELSE IF ~treeNode.nullChildren
    THEN [treeNode EXCEPT !.children =
            [i \in 1..Len(treeNode.children) |-> updateContent(treeNode.children[i], nodeId, newContent)]]
  ELSE treeNode

\* deleteTreeNode / removeSubtree: None where the source returns null
RECURSIVE removeSubtree(_, _)
removeSubtree(node, targetNodeId) ==
  IF node.id = targetNodeId THEN None
  ELSE IF ~node.nullChildren /\ Len(node.children) > 0
    THEN LET RECURSIVE keep(_)
             keep(i) == IF i > Len(node.children) THEN <<>>
                        ELSE removeSubtree(node.children[i], targetNodeId) \o keep(i + 1)
             nextChildren == keep(1)
         IN Some([node EXCEPT !.children = nextChildren, !.nullChildren = (nextChildren = <<>>)])
  ELSE Some(node)

\* the if / else-if chain of redecomposeFromNode on one parsed frame; a graft
\* on a store without a tree throws inside the try and the frame is skipped
applyRedecomposeFrame(st, data, nodeId, t) ==
  IF data.type = "update" /\ data.treeData /= None
    THEN IF st.treeData = None THEN st
         ELSE [st EXCEPT !.treeData = Some(replaceNodeSubtree(st.treeData[1], nodeId, data.treeData[1],
                                                              subtreeIdPrefix(nodeId, t))),
                         !.decomposingProgress = progressOr(data, st.decomposingProgress),
                         !.decomposingMessage = messageOr(data, st.decomposingMessage)]
  ELSE IF data.type = "progress"
    THEN [st EXCEPT !.decomposingProgress = progressOr(data, st.decomposingProgress),
                    !.decomposingMessage = messageOr(data, st.decomposingMessage)]
  ELSE IF data.type = "complete"
    THEN IF data.treeData /= None
           THEN IF st.treeData = None THEN st
                ELSE [st EXCEPT !.treeData = Some(replaceNodeSubtree(st.treeData[1], nodeId, data.treeData[1],
                                                                     subtreeIdPrefix(nodeId, t))),
                                !.isDecomposing = FALSE,
                                !.decomposingProgress = 100,
                                !.decomposingMessage = messageOr(data, "re-decomposition complete"),
                                !.currentAbortController = None]
           ELSE [st EXCEPT !.isDecomposing = FALSE,
                           !.decomposingProgress = 100,
                           !.decomposingMessage = messageOr(data, "re-decomposition complete"),
                           !.currentAbortController = None]
  ELSE IF data.type = "terminated"
    THEN [st EXCEPT !.isDecomposing = FALSE,
                    !.decomposingMessage = messageOr(data, "re-decomposition terminated"),
                    !.currentAbortController = None]
  ELSE IF data.type = "error"
    THEN [st EXCEPT !.isDecomposing = FALSE,
                    !.decomposingProgress = 0,
                    !.decomposingMessage = IF data.error /= None THEN data.error[1]
                                           ELSE "re-decomposition error",
                    !.currentAbortController = None]
  ELSE st

\* the frames a stream delivers in the following of the store's calls
StoreFrames == WireFrames

\* An abort rejects the pending fetch / read of the call that holds the
\* controller; its catch runs as a microtask, before any other handler.
PendingAbort == \E k \in Fetches : streams[k].phase = "aborting"

\* currentAbortController.abort() (a no-op on a call that has returned)
abort(token, strs) ==
  [k \in Fetches |->
     IF token = Some(k) /\ strs[k].phase = "reading"
       THEN [strs[k] EXCEPT !.phase = "aborting"]
       ELSE strs[k]]

\* startStreamDecomposition, called as call k of the store: up to the fetch
startStreamDecompositionCall(k) ==
  /\ streams[k].phase = "none"
  /\ ~PendingAbort
  /\ store' = [store EXCEPT !.isDecomposing = TRUE,
                            !.decomposingProgress = 0,
                            !.decomposingMessage = "preparing",
                            !.currentAbortController = Some(k),
                            !.isNewDecomposition = TRUE]
  /\ streams' = [streams EXCEPT ![k] = [NoStream EXCEPT !.phase = "reading", !.kind = "start"]]
  /\ latest' = Some(k)
  /\ UNCHANGED <<ServerVars, wire, nRead, sent, applied, reader, now>>

\* redecomposeFromNode(nodeId, ...), called as call k of the store: aborts the
\* controller the store holds, marks the store, clears the target's children,
\* up to the fetch
redecomposeFromNode(k, nodeId) ==
  /\ streams[k].phase = "none"
  /\ ~PendingAbort
  /\ store.treeData /= None
  /\ nodeId \in getAllNodeIds(store.treeData[1])
  /\ store' = [store EXCEPT !.isDecomposing = TRUE,
                            !.decomposingProgress = 0,
                            !.decomposingMessage = "re-decomposing",
                            !.currentAbortController = Some(k),
                            !.treeData = Some(clearChildren(store.treeData[1], nodeId))]
  /\ streams' = [abort(store.currentAbortController, streams) EXCEPT
                   ![k] = [NoStream EXCEPT !.phase = "reading", !.kind = "redecompose",
                                           !.nodeId = Some(nodeId)]]
  /\ latest' = Some(k)
  /\ UNCHANGED <<ServerVars, wire, nRead, sent, applied, reader, now>>

\* the frame makes the call graft a subtree, and so read Date.now()
grafts(st, data, kind) ==
  /\ kind = "redecompose"
  /\ data.type \in {"update", "complete"}
  /\ data.treeData /= None
  /\ st.treeData /= None

\* reader.read() of call k resolves with a chunk that holds the frame data:
\* the body of the while loop of the function that made the call
ReadFrame(k, data) ==
  /\ streams[k].phase = "reading"
  /\ ~streams[k].ended
  /\ streams[k].reads < MaxReads
  /\ ~PendingAbort
  /\ store' = IF streams[k].kind = "start"
                THEN applyFrame(store, data)
                ELSE applyRedecomposeFrame(store, data, streams[k].nodeId[1], now)
  /\ streams' = [streams EXCEPT ![k].reads = @ + 1, ![k].last = Some(data),
                                 ![k].ended = data.type \in TerminalTypes,
                                 ![k].tokens = IF grafts(store, data, streams[k].kind)
                                                 THEN @ \cup {now} ELSE @]
  /\ UNCHANGED <<ServerVars, wire, nRead, sent, applied, reader, latest, now>>

\* reader.read() of call k resolves with done after the terminal frame: break,
\* the function returns
ReadEnd(k) ==
  /\ streams[k].phase = "reading"
  /\ streams[k].ended
  /\ ~PendingAbort
  /\ streams' = [streams EXCEPT ![k].phase = "returned"]
  /\ UNCHANGED <<ServerVars, wire, nRead, sent, applied, reader, store, latest, now>>

\* slip: the catch does not tell an AbortError from any other error
AbortCaught_AsFailure(k) ==
  /\ streams[k].phase = "aborting"
  /\ store' = [store EXCEPT !.isDecomposing = FALSE,
                            !.decomposingProgress = 0,
                            !.decomposingMessage = "failed: AbortError",
                            !.currentAbortController = None]
  /\ streams' = [streams EXCEPT ![k].phase = "threw"]
  /\ UNCHANGED <<ServerVars, wire, nRead, sent, applied, reader, latest, now>>

\* the catch of call k on the AbortError of its fetch / read: neutral message,
\* return
AbortCaught(k) ==
  /\ streams[k].phase = "aborting"
  /\ store' = IF streams[k].kind = "start"
                THEN [store EXCEPT !.isDecomposing = FALSE,
                                   !.decomposingMessage = "terminated",
                                   !.currentAbortController = None,
                                   !.isNewDecomposition = TRUE]
                ELSE [store EXCEPT !.isDecomposing = FALSE,
                                   !.decomposingMessage = "re-decomposition terminated",
                                   !.currentAbortController = None]
  /\ streams' = [streams EXCEPT ![k].phase = "returned"]
  /\ UNCHANGED <<ServerVars, wire, nRead, sent, applied, reader, latest, now>>

\* the fetch / read of call k rejects with an error that is not an AbortError:
\* failure message, rethrow
ReadFails(k) ==
  /\ streams[k].phase = "reading"
  /\ ~streams[k].ended
  /\ ~PendingAbort
  /\ store' = IF streams[k].kind = "start"
                THEN [store EXCEPT !.isDecomposing = FALSE,
                                   !.decomposingProgress = 0,
                                   !.decomposingMessage = "failed: NetworkError",
                                   !.currentAbortController = None,
                                   !.isNewDecomposition = TRUE]
                ELSE [store EXCEPT !.isDecomposing = FALSE,
                                   !.decomposingProgress = 0,
                                   !.decomposingMessage = "re-decomposition failed: NetworkError",
                                   !.currentAbortController = None]
  /\ streams' = [streams EXCEPT ![k].phase = "threw"]
  /\ UNCHANGED <<ServerVars, wire, nRead, sent, applied, reader, latest, now>>

\* terminateDecomposition of the store: aborts the controller it holds, posts
\* terminate-decomposition (handled on the server by terminateDecomposition
\* above), marks the store
storeTerminateDecomposition ==
  /\ ~PendingAbort
  /\ streams' = abort(store.currentAbortController, streams)
  /\ store' = [store EXCEPT !.isDecomposing = FALSE,
                            !.decomposingMessage = "terminating",
                            !.currentAbortController = None,
                            !.isNewDecomposition = TRUE]
  /\ UNCHANGED <<ServerVars, wire, nRead, sent, applied, reader, latest, now>>

updateTreeNodeContent(nodeId, newContent) ==
  /\ ~PendingAbort
  /\ store.treeData /= None
  /\ nodeId \in getAllNodeIds(store.treeData[1])
  /\ store' = [store EXCEPT !.treeData = Some(updateContent(store.treeData[1], nodeId, newContent))]
  /\ UNCHANGED <<ServerVars, wire, nRead, sent, applied, reader, streams, latest, now>>

deleteTreeNode(targetNodeId) ==
  /\ ~PendingAbort
  /\ store.treeData /= None
  /\ targetNodeId \in getAllNodeIds(store.treeData[1])
  /\ LET updatedTreeData == removeSubtree(store.treeData[1], targetNodeId)
     IN store' = IF updatedTreeData = None
                   THEN [store EXCEPT !.treeData = None, !.isNewDecomposition = TRUE]
                   ELSE [store EXCEPT !.treeData = updatedTreeData]
  /\ UNCHANGED <<ServerVars, wire, nRead, sent, applied, reader, streams, latest, now>>

\* time passes
Tick ==
  /\ ~PendingAbort
  /\ now < MaxClock
  /\ now' = now + 1
  /\ UNCHANGED <<ServerVars, wire, nRead, sent, applied, reader, store, streams, latest>>

NextStore ==
  \/ \E k \in Fetches : startStreamDecompositionCall(k)
  \/ \E k \in Fetches, nodeId \in getAllNodeIds(WireTrees[2]) : redecomposeFromNode(k, nodeId)
  \/ \E k \in Fetches, data \in StoreFrames : ReadFrame(k, data)
  \/ \E k \in Fetches : ReadEnd(k)
  \/ \E k \in Fetches : AbortCaught(k)
  \/ \E k \in Fetches : ReadFails(k)
  \/ storeTerminateDecomposition
  \/ \E nodeId \in getAllNodeIds(WireTrees[2]) : updateTreeNodeContent(nodeId, "edited")
  \/ \E nodeId \in getAllNodeIds(WireTrees[2]) : deleteTreeNode(nodeId)
  \/ Tick

SpecStore == Init /\ [][NextStore]_vars

\* reader.read() of call k resolves with done although no terminal frame was
\* read (the response body ended early): break, the function returns and no
\* statement follows the loop
ReadEndNoTerminal(k) ==
  /\ streams[k].phase = "reading"
  /\ ~streams[k].ended
  /\ ~PendingAbort
  /\ streams' = [streams EXCEPT ![k].phase = "returned"]
  /\ UNCHANGED <<ServerVars, wire, nRead, sent, applied, reader, store, latest, now>>

\* slip: resetState leaves the controller in the store
resetState_KeepToken ==
  /\ ~PendingAbort
  /\ store' = [InitialStore EXCEPT !.currentAbortController = store.currentAbortController]
  /\ UNCHANGED <<ServerVars, wire, nRead, sent, applied, reader, streams, latest, now>>

\* resetState of the store: every field back to its initial value; the
\* controller is dropped, not aborted
resetState ==
  /\ ~PendingAbort
  /\ store' = InitialStore
  /\ UNCHANGED <<ServerVars, wire, nRead, sent, applied, reader, streams, latest, now>>

\* the store under its session operations: start, re-decomposition, cancel,
\* reset, and the frames and ends of the streams
NextSessions ==
  \/ \E k \in Fetches : startStreamDecompositionCall(k)
  \/ \E k \in Fetches, nodeId \in getAllNodeIds(WireTrees[2]) : redecomposeFromNode(k, nodeId)
  \/ \E k \in Fetches, data \in StoreFrames : ReadFrame(k, data)
  \/ \E k \in Fetches : ReadEnd(k)
  \/ \E k \in Fetches : ReadEndNoTerminal(k)
  \/ \E k \in Fetches : AbortCaught(k)
  \/ \E k \in Fetches : ReadFails(k)
  \/ storeTerminateDecomposition
  \/ resetState

SpecSessions == Init /\ [][NextSessions]_vars

\* the store under re-decompositions of a tree whose nodes may be deleted
\* while a stream is read
NextGraft ==
  \/ \E k \in Fetches : startStreamDecompositionCall(k)
  \/ \E k \in Fetches, nodeId \in getAllNodeIds(WireTrees[2]) : redecomposeFromNode(k, nodeId)
  \/ \E k \in Fetches, data \in StoreFrames : ReadFrame(k, data)
  \/ \E k \in Fetches : ReadEnd(k)
  \/ \E k \in Fetches : AbortCaught(k)
  \/ \E nodeId \in getAllNodeIds(WireTrees[2]) : deleteTreeNode(nodeId)

SpecGraft == Init /\ [][NextGraft]_vars

(* ============================== claims ================================= *)
EventOf(s) == lastEvent[s][1]
FrameOf(s) == lastFrame[s][1]
Emitted(s, type) == lastEvent[s] /= None /\ EventOf(s).type = type

UniqueIds(tree) == Cardinality(getAllNodeIds(tree)) = Len(getAllNodes(tree))

NodesWithId(tree, id) ==
  LET all == getAllNodes(tree) IN {all[i] : i \in {j \in 1..Len(all) : all[j].id = id}}

\* the route left the loop because the consumer had gone away, and the
\* generator was returned at the yield it was suspended at
Abandoned(s) == pc[s] = "done" /\ nTerminal[s] = 0

\* C1 (as stated): every finished session has yielded exactly one terminal
\* event, and no event after it.
C1_ExactlyOneTerminal ==
  \A s \in Sessions :
    pc[s] = "done" => nTerminal[s] = 1 /\ ~eventAfterTerminal[s]

\* C1 (amended): a session yields at most one terminal event and no event
\* after it; a finished session has yielded exactly one, and it is the last
\* event, unless the route abandoned the generator after the consumer of the
\* stream disconnected, in which case it has yielded none.
C1_AtMostOneTerminal ==
  \A s \in Sessions :
    /\ nTerminal[s] <= 1
    /\ ~eventAfterTerminal[s]
    /\ nTerminal[s] = 1 => pc[s] = "done" /\ EventOf(s).type \in TerminalTypes
    /\ pc[s] = "done" =>
         \/ nTerminal[s] = 1
         \/ controller[s] = "cancelled" /\ isStreamClosed[s] /\ isClosing[s]

C1_Witness ==
  \E s \in Sessions :
    /\ pc[s] = "done" /\ nTerminal[s] = 1 /\ Emitted(s, "complete")
    /\ Len(getAllNodes(currentTree[s])) >= 3

\* C2: the tree carried by every update_tree, complete and terminated event
\* has as many distinct node ids as it has nodes.
C2_TreeIdsUnique ==
  \A s \in Sessions :
    (lastEvent[s] /= None /\ EventOf(s).type \in {"update_tree", "complete", "terminated"})
      => /\ EventOf(s).tree /= None
         /\ UniqueIds(EventOf(s).tree[1])

C2_Witness ==
  \E s \in Sessions :
    /\ Emitted(s, "update_tree")
    /\ expansions[s] >= 2
    /\ Len(getAllNodes(EventOf(s).tree[1])) = MaxNodes

\* the generator of s is suspended before a checkpoint: its next step reads
\* the termination flag
AtCheckpoint(s) ==
  \/ pc[s] \in {"decompose_root", "update_tree"}
  \/ /\ pc[s] = "progress"
     /\ \/ leafIdx[s] < Len(pendingLeafNodes[s])
        \/ iterationCount[s] + 1 < maxIterations

\* C3 (as stated): a session that was in flight when termination was requested
\* ends with exactly one terminated event.
C3_RequestAlwaysTerminates ==
  \A s \in Sessions :
    (pc[s] = "done" /\ flagSeen[s]) => nTerminal[s] = 1 /\ Emitted(s, "terminated")

\* C3 (amended): a session that finds the flag set at one of its checkpoints
\* yields terminated there, exactly once, carrying the tree as it was after the
\* last completed step, and ends; if the stream is still open the terminated
\* frame with that tree is the last frame written, and nothing is written on
\* the stream of a finished session.
C3_TerminatedAtCheckpoint ==
  [][\A s \in Sessions :
       /\ (AtCheckpoint(s) /\ shouldTerminate /\ pc'[s] /= pc[s]) =>
            /\ pc'[s] = "done"
            /\ lastEvent'[s] /= None
            /\ lastEvent'[s][1].type = "terminated"
            /\ lastEvent'[s][1].tree = Some(currentTree[s])
            /\ currentTree'[s] = currentTree[s]
            /\ nTerminal'[s] = 1
            /\ (~isStreamClosed[s] /\ controller[s] = "readable") =>
                 /\ lastFrame'[s] /= None
                 /\ lastFrame'[s][1].type = "terminated"
                 /\ lastFrame'[s][1].treeData = Some(currentTree[s])
       /\ pc[s] = "done" => lastFrame'[s] = lastFrame[s] /\ lastEvent'[s] = lastEvent[s]
    ]_vars

C3_Witness ==
  \E s \in Sessions :
    /\ Emitted(s, "terminated")
    /\ lastFrame[s] /= None /\ FrameOf(s).type = "terminated"
    /\ FrameOf(s).treeData = Some(currentTree[s])
    /\ Len(getAllNodes(currentTree[s])) >= 3
    /\ expansions[s] >= 1

\* C4 (as stated): once both sessions have finished, each one that was in
\* flight when the flag was set has ended with terminated.
C4_FlagTerminatesEveryInFlight ==
  (\A s \in Sessions : pc[s] = "done") =>
    \A s \in Sessions : flagSeen[s] => Emitted(s, "terminated")

\* C4 (amended): there is one flag for all sessions: whichever request set it,
\* every session whose next step starts at a checkpoint while the flag is set
\* ends with terminated at that step; and a session that starts clears the flag
\* for all of them.
C4_SharedFlag ==
  [][\A s \in Sessions :
       /\ (AtCheckpoint(s) /\ shouldTerminate /\ pc'[s] /= pc[s]) =>
            pc'[s] = "done" /\ lastEvent'[s] /= None /\ lastEvent'[s][1].type = "terminated"
       /\ (pc[s] = "idle" /\ pc'[s] /= "idle") => ~shouldTerminate'
    ]_vars

\* one request has terminated both sessions
C4_Witness ==
  /\ requests = 1
  /\ \A s \in Sessions : Emitted(s, "terminated") /\ flagSeen[s]

\* C5: on one response stream the progress value of a frame is never smaller
\* than the progress value of the frame written before it.
C5_ProgressNonDecreasing ==
  [][\A s \in Sessions :
       (/\ lastFrame[s] /= None /\ lastFrame[s][1].progress /= None
        /\ lastFrame'[s] /= None /\ lastFrame'[s][1].progress /= None)
         => lastFrame'[s][1].progress[1] >= lastFrame[s][1].progress[1]
    ]_vars

\* C7 (as stated): a node whose classification returned canDirectlyAnswer has
\* no decompose_node event anywhere in its session.
C7_NeverAnnounced ==
  \A s \in Sessions : answered[s] \cap announced[s] = {}

\* the step in which the classification of the current leaf returns true
AnsweredStep(s) ==
  pc[s] = "await_judge" /\ answered'[s] /= answered[s]

\* C7 (amended): when the classification of pending leaf N returns true, N gets
\* status can_answer with canDirectlyAnswer = true, the event yielded counts one
\* processed node more than the pre-call event of N did, the progress event
\* that follows reports that same count, and no decompose_node event for N is
\* yielded from then on; the only decompose_node event that can precede it is
\* the initial one for the root, when the root expansion returned a childless
\* node with id root.
C7_CanAnswer ==
  [][\A s \in Sessions :
       /\ AnsweredStep(s) =>
            LET N == leafNode(s).id IN
            /\ NodesWithId(currentTree'[s], N) /= {}
            /\ \A n \in NodesWithId(currentTree'[s], N) :
                 n.status = "can_answer" /\ n.canDirectlyAnswer
            /\ lastEvent'[s][1].type = "judge_node"
            /\ lastEvent'[s][1].result = Some(TRUE)
            /\ lastEvent'[s][1].state[1].processedNodes = EventOf(s).state[1].processedNodes + 1
            /\ createWorkflowState(currentTree'[s]).processedNodes
                 = createWorkflowState(currentTree[s]).processedNodes + 1
       /\ (pc[s] = "result" /\ pc'[s] /= pc[s]) =>
            /\ lastEvent'[s][1].type = "progress"
            /\ lastEvent'[s][1].state[1].processedNodes = EventOf(s).state[1].processedNodes
       /\ (lastEvent'[s] /= lastEvent[s] /\ lastEvent'[s][1].type = "decompose_node") =>
            lastEvent'[s][1].nodeId[1] \notin answered[s]
       /\ (answered'[s] \cap announced'[s]) \subseteq {<<"root">>}
    ]_vars

C7_Witness ==
  \E s \in Sessions :
    /\ Emitted(s, "progress")
    /\ <<"root", 1>> \in answered[s]
    /\ EventOf(s).state[1].processedNodes = 1
    /\ \E n \in NodesWithId(currentTree[s], <<"root", 1>>) :
         n.status = "can_answer" /\ n.canDirectlyAnswer

\* the step in which the expansion call for the current leaf rejects
NodeExpansionFailsStep(s) ==
  pc[s] = "await_node" /\ pc'[s] /= pc[s] /\ expansions'[s] = expansions[s]

\* C8: when a node-level expansion fails the node becomes can_answer with
\* canDirectlyAnswer = true, the event yielded is a judge_node result and not an
\* error, no terminal event is yielded, and the session goes on to the progress
\* event of that leaf and from there to the next pending leaf (it stops there
\* only because its consumer had already disconnected); an error event is
\* never the outcome of a node-level expansion.
C8_NodeFailureDegrades ==
  [][\A s \in Sessions :
       /\ NodeExpansionFailsStep(s) =>
            LET N == leafNode(s).id IN
            /\ NodesWithId(currentTree'[s], N) /= {}
            /\ \A n \in NodesWithId(currentTree'[s], N) :
                 n.status = "can_answer" /\ n.canDirectlyAnswer
            /\ lastEvent'[s][1].type = "judge_node"
            /\ lastEvent'[s][1].result = Some(TRUE)
            /\ lastEvent'[s][1].nodeId = Some(N)
            /\ nTerminal'[s] = 0
            /\ failure'[s] = "none"
            /\ \/ pc'[s] = "result"
               \/ pc'[s] = "done" /\ isStreamClosed[s]
       /\ (lastEvent'[s] /= lastEvent[s] /\ lastEvent'[s][1].type = "error") =>
            pc[s] \in {"await_root", "await_judge"}
    ]_vars

\* a leaf was degraded after a failed expansion and the session has moved on to
\* classify a later leaf
C8_Witness ==
  \E s \in Sessions :
    /\ pc[s] = "await_judge"
    /\ leafIdx[s] = 2
    /\ pendingLeafNodes[s][1].id \in announced[s]
    /\ \E n \in NodesWithId(currentTree[s], pendingLeafNodes[s][1].id) :
         n.status = "can_answer" /\ n.canDirectlyAnswer /\ n.nullChildren

\* C9: after the root expansion or a classification call has failed, the
\* session is over, its only terminal event is the error event, which is its
\* last event and carries the message of the failure and no tree; the frame
\* written for it carries the message and no tree either.
C9_FailureEndsWithError ==
  \A s \in Sessions :
    failure[s] /= "none" =>
      /\ pc[s] = "done"
      /\ nTerminal[s] = 1
      /\ ~eventAfterTerminal[s]
      /\ EventOf(s).type = "error"
      /\ EventOf(s).error /= None /\ EventOf(s).error[1] \in ServiceErrors
      /\ EventOf(s).tree = None
      /\ (lastFrame[s] /= None /\ FrameOf(s).type \in TerminalTypes) =>
           FrameOf(s).type = "error" /\ FrameOf(s).error = EventOf(s).error
                                     /\ FrameOf(s).treeData = None

C9_Witness ==
  \E s \in Sessions :
    /\ failure[s] = "classification"
    /\ Emitted(s, "error")
    /\ lastFrame[s] /= None /\ FrameOf(s).type = "error"
    /\ Len(getAllNodes(currentTree[s])) >= 2

\* C10: no frame is written on a stream after its terminal frame; once the
\* controller is closed or the consumer has disconnected a write changes
\* nothing on the stream and no error escapes it; after a terminal frame the
\* channel is closed.
C10_NoWriteAfterTerminalOrClose ==
  [][\A s \in Sessions :
       /\ ~frameAfterTerminal'[s]
       /\ ~raised'[s]
       /\ (controller[s] /= "readable" \/ IsTerminalFrame(lastFrame[s])) =>
            lastFrame'[s] = lastFrame[s]
       /\ IsTerminalFrame(lastFrame'[s]) =>
            pc'[s] = "done" /\ isStreamClosed'[s] /\ controller'[s] = "closed"
    ]_vars

\* a write was attempted after the consumer had disconnected: it was dropped,
\* the flags were set and the session was abandoned at its next event
C10_Witness ==
  \E s \in Sessions :
    /\ controller[s] = "cancelled"
    /\ isStreamClosed[s] /\ isClosing[s]
    /\ pc[s] = "done"
    /\ lastEvent[s] /= None /\ lastFrame[s] /= None
    /\ EventOf(s).type = "update_tree" /\ FrameOf(s).type = "start"

\* C11: in every execution of the decompose-stream endpoint the channel ends
\* up closed, and it is closed once: controller.close() is called at most
\* once and only on a stream that is still open, a channel that has left the
\* readable state (closed by the route, or cancelled by its consumer) never
\* changes again, an execution that is over has left its channel closed with
\* the route's flag set, and every execution that has started is eventually
\* over: after a terminal event, after the loop was left without one, and
\* after the catch.
C11_ClosedExactlyOnce ==
  /\ [](\A s \in Sessions :
          /\ closeCalls[s] <= 1
          /\ closeCalls[s] = 1 <=> controller[s] = "closed"
          /\ pc[s] = "done" => controller[s] /= "readable" /\ isStreamClosed[s])
  /\ [][\A s \in Sessions : controller[s] /= "readable" => controller'[s] = controller[s]]_vars
  /\ (pc[Main] /= "idle" ~> (pc[Main] = "done" /\ controller[Main] /= "readable"))

\* the loop body threw while the stream was open: the catch wrote its error
\* frame and closed the channel
C11_Witness ==
  /\ loopFault[Main]
  /\ pc[Main] = "done"
  /\ nTerminal[Main] = 0
  /\ controller[Main] = "closed" /\ closeCalls[Main] = 1
  /\ lastFrame[Main] = Some(catchFrame)

\* C12: a frame is only ever applied to the store by the call that was made
\* last: after startStreamDecomposition or redecomposeFromNode is called while
\* an earlier call is still reading its stream, the earlier call applies no
\* further frame.
C12_OnlyLatestStreamApplies ==
  [][\A k \in Fetches :
       streams'[k].reads > streams[k].reads => latest = Some(k)]_vars

\* the step in which call k, made by startStreamDecomposition, applies a frame
AppliesFrame(k, kind) ==
  streams[k].kind = kind /\ streams'[k].reads > streams[k].reads

\* C13: in a session started by startStreamDecomposition, an update frame puts
\* its snapshot in the place of the tree mirror; a progress frame leaves the
\* tree mirror, isDecomposing and the active token as they were (only progress
\* and message may change); complete, terminated and error each leave
\* isDecomposing = false and no active token.
C13_FrameEffects ==
  [][\A k \in Fetches :
       AppliesFrame(k, "start") =>
         LET data == streams'[k].last[1] IN
         /\ (data.type = "update" /\ data.treeData /= None) => store'.treeData = data.treeData
         /\ data.type = "progress" =>
              /\ store'.treeData = store.treeData
              /\ store'.isDecomposing = store.isDecomposing
              /\ store'.currentAbortController = store.currentAbortController
              /\ store'.isNewDecomposition = store.isNewDecomposition
         /\ data.type \in TerminalTypes =>
              ~store'.isDecomposing /\ store'.currentAbortController = None
    ]_vars

\* a fresh session has applied an update frame and then its complete frame
C13_Witness ==
  \E k \in Fetches :
    /\ streams[k].kind = "start" /\ streams[k].reads = 2
    /\ streams[k].last /= None /\ streams[k].last[1].type = "complete"
    /\ store.treeData = Some(WireTrees[2])
    /\ ~store.isDecomposing /\ store.currentAbortController = None
    /\ store.decomposingProgress = 100
    /\ \A j \in Fetches \ {k} : streams[j].phase = "none"

\* the nodes below the node with id nodeId in tree
DescendantsOf(tree, nodeId) ==
  LET all == getAllNodes(tree)
      RECURSIVE below(_)
      below(n) == IF n.nullChildren THEN {}
                  ELSE UNION {{n.children[i]} \cup below(n.children[i]) : i \in 1..Len(n.children)}
  IN UNION {below(all[i]) : i \in {j \in 1..Len(all) : all[j].id = nodeId}}

\* C14: when a re-decomposition of node X grafts the tree of a frame (X is
\* still in the tree mirror), every
\* node below X has an id X__T__<originalId>, where <originalId> is the id of a
\* node below the root of the frame's tree, T is one value for all grafts of
\* the re-decomposition, and no id occurs twice in the tree mirror.
C14_NamespacedIds ==
  [][\A k \in Fetches :
       AppliesFrame(k, "redecompose") =>
         ((/\ grafts(store, streams'[k].last[1], "redecompose")
           /\ streams[k].nodeId[1] \in getAllNodeIds(store.treeData[1])) =>
            LET X == streams[k].nodeId[1]
                frameTree == streams'[k].last[1].treeData[1]
            IN /\ \E T \in 0..MaxClock + 1 :
                    /\ streams'[k].tokens = {T}
                    /\ {n.id : n \in DescendantsOf(store'.treeData[1], X)}
                         = {subtreeIdPrefix(X, T) \o m.id : m \in DescendantsOf(frameTree, frameTree.id)}
               /\ UniqueIds(store'.treeData[1]))
    ]_vars

\* id and content of the nodes of tree that are not below the node nodeId
Outside(tree, nodeId) ==
  LET all == getAllNodes(tree)
      inside == DescendantsOf(tree, nodeId)
  IN {[id |-> all[i].id, content |-> all[i].content] : i \in {j \in 1..Len(all) : all[j] \notin inside}}

\* C15: a graft of a re-decomposition of node X works on the tree mirror as it
\* is when the frame is applied: the nodes that are not below X are, after the
\* graft, the ones that were there just before it, with the content they had
\* then; an edit or a deletion made since the call or since the frame before
\* is not undone.
C15_GraftOnLatestTree ==
  [][\A k \in Fetches :
       (/\ AppliesFrame(k, "redecompose")
        /\ grafts(store, streams'[k].last[1], "redecompose")) =>
          LET X == streams[k].nodeId[1]
          IN Outside(store'.treeData[1], X) = Outside(store.treeData[1], X)
    ]_vars

\* a re-decomposition of root-2 has grafted twice, and root-1, which was
\* edited, has its new content next to the grafted subtree
C15_Witness ==
  \E k \in Fetches :
    /\ streams[k].kind = "redecompose" /\ streams[k].nodeId = Some(<<"root", 2>>)
    /\ streams[k].reads = 2 /\ streams[k].last[1].type = "complete"
    /\ store.treeData /= None
    /\ DescendantsOf(store.treeData[1], <<"root", 2>>) /= {}
    /\ [id |-> <<"root", 1>>, content |-> "edited"] \in Outside(store.treeData[1], <<"root", 2>>)

\* C16: a session never has more than one call of a service outstanding: a
\* call is made only when none is outstanding, and the session is suspended
\* in an await exactly while one is; the for-of loop moves to a leaf only
\* when the call of the leaf before has returned, one position at a time (or
\* to the first leaf of the next pass).
C16_OneCallAtATime ==
  [][\A s \in Sessions :
       /\ calls'[s] \in {0, 1}
       /\ calls'[s] > calls[s] => calls[s] = 0
       /\ calls'[s] = 1 <=> pc'[s] \in {"await_root", "await_judge", "await_node"}
       /\ leafIdx'[s] /= leafIdx[s] =>
            /\ calls[s] = 0
            /\ leafIdx'[s] = leafIdx[s] + 1 \/ leafIdx'[s] = 1
    ]_vars

\* the second leaf of a pass is being classified after the first one was
\* classified and expanded
C16_Witness ==
  \E s \in Sessions :
    /\ pc[s] = "await_judge" /\ calls[s] = 1
    /\ leafIdx[s] = 2 /\ Len(pendingLeafNodes[s]) >= 2
    /\ expansions[s] = 1

\* C17: the decompose route answers once the session is over, and not before;
\* after a complete event the answer is 200 with root equal to the tree that
\* event carries; after an error event the answer has a 5xx status and an
\* error message and no tree; a 200 is only ever the answer to a complete
\* event.
C17_BlockingAnswer ==
  \A s \in Sessions :
    endpoint[s] = "decompose" =>
      /\ response[s] /= None <=> pc[s] = "done"
      /\ pc[s] = "done" /\ Emitted(s, "complete") =>
           /\ response[s][1] = Response(200, EventOf(s).tree, None)
           /\ EventOf(s).tree = Some(currentTree[s])
      /\ pc[s] = "done" /\ Emitted(s, "error") =>
           /\ response[s][1].status \in 500..599
           /\ response[s][1].error /= None
           /\ response[s][1].root = None
      /\ response[s] /= None /\ response[s][1].status = 200 => Emitted(s, "complete")

\* the route has answered a session that completed after an expansion below
\* the root
C17_Witness ==
  \E s \in Sessions :
    /\ endpoint[s] = "decompose" /\ response[s] /= None
    /\ Emitted(s, "complete") /\ expansions[s] >= 2
    /\ response[s][1].root = Some(currentTree[s])

\* the messages the store shows after a failure
FailureTexts ==
  {"failed: NetworkError", "re-decomposition failed: NetworkError", "failed: AbortError",
   "re-decomposition error"}

\* C18: cancelling on the client never ends in the error state. The step of
\* terminateDecomposition that aborts a running read leaves the tree and the
\* progress as they were, clears isDecomposing and the token and shows no
\* failure text; the step in which the aborted read's rejection is caught
\* again leaves tree and progress untouched, keeps isDecomposing false and
\* the token empty, returns instead of rethrowing, and sets the terminated
\* text.
C18_CancelIsNotAnError ==
  [][ \A k \in Fetches :
        /\ ( /\ streams[k].phase = "reading" /\ streams'[k].phase = "aborting"
             /\ store'.decomposingMessage = "terminating" ) =>
             /\ store'.treeData = store.treeData
             /\ store'.decomposingProgress = store.decomposingProgress
             /\ ~store'.isDecomposing
             /\ store'.currentAbortController = None
        /\ ( /\ streams[k].phase = "aborting" /\ streams'[k].phase /= "aborting"
             /\ store.decomposingMessage = "terminating" ) =>
             /\ store'.treeData = store.treeData
             /\ store'.decomposingProgress = store.decomposingProgress
             /\ ~store'.isDecomposing
             /\ store'.currentAbortController = None
             /\ streams'[k].phase = "returned"
             /\ store'.decomposingMessage \in {"terminated", "re-decomposition terminated"}
             /\ store'.decomposingMessage \notin FailureTexts
    ]_vars

\* a session that had shown a tree and a progress value was cancelled and its
\* aborted read was caught
C18_Witness ==
  \E k \in Fetches :
    /\ streams[k].phase = "returned" /\ streams[k].kind = "start" /\ streams[k].reads >= 1
    /\ store.decomposingMessage = "terminated"
    /\ store.treeData /= None /\ store.decomposingProgress > 0
    /\ ~store.isDecomposing /\ store.currentAbortController = None

\* C19: once a rejected first expansion or classification has ended the
\* session, the error event carries the rejection's message; behind the
\* streaming route the error frame carries it and the store that applies the
\* frame shows it as decomposingMessage; behind the decompose route the
\* response carries it.
C19_MessageVerbatim ==
  \A s \in Sessions :
    (thrown[s] /= None /\ pc[s] = "done") =>
      /\ Emitted(s, "error") /\ EventOf(s).error = thrown[s]
      /\ endpoint[s] = "decompose-stream" =>
           /\ lastFrame[s] /= None
           /\ FrameOf(s).type = "error" /\ FrameOf(s).error = thrown[s]
           /\ applyFrame(store, FrameOf(s)).decomposingMessage = thrown[s][1]
      /\ endpoint[s] = "decompose" =>
           /\ response[s] /= None
           /\ response[s][1].error = thrown[s]

\* every child of `node` has the id of `node` followed by its position, and
\* so on below
RECURSIVE NumberedByPosition(_)
NumberedByPosition(node) ==
  \A i \in 1..Len(node.children) :
    /\ node.children[i].id = Append(node.id, i)
    /\ NumberedByPosition(node.children[i])

\* C20: in the step in which the first expansion returns a root with k >= 1
\* children, the new tree's root has id root, its children have ids root-1,
\* ..., root-k in order, and every descendant's id is its parent's id
\* followed by its position.
C20_RootIdsByPosition ==
  [][ \A s \in Sessions :
        ( /\ pc[s] = "await_root" /\ currentTree'[s] /= currentTree[s]
          /\ Len(currentTree'[s].children) >= 1 ) =>
          /\ currentTree'[s].id = <<"root">>
          /\ \A i \in 1..Len(currentTree'[s].children) :
               currentTree'[s].children[i].id = <<"root", i>>
          /\ NumberedByPosition(currentTree'[s])
    ]_vars

\* the first expansion has returned a root whose child has a child of its own
C20_Witness ==
  \E s \in Sessions :
    /\ pc[s] = "update_tree" /\ expansions[s] = 0
    /\ Len(currentTree[s].children) >= 1
    /\ Len(currentTree[s].children[1].children) >= 1
    /\ currentTree[s].children[1].children[1].id = <<"root", 1, 1>>

\* C21: the tree's root has id root in every snapshot of a session, and the
\* step in which the expansion of a pending leaf returns puts the new
\* subtree's root under the leaf's own id: that id is still in the tree, and
\* every other id the step adds is new.
C21_GraftKeepsSlotId ==
  [][ \A s \in Sessions :
        /\ currentTree'[s].id = <<"root">>
        /\ ( /\ pc[s] = "await_node" /\ lastEvent'[s] /= lastEvent[s]
             /\ lastEvent'[s][1].type = "update_tree" ) =>
             /\ leafNode(s).id \in getAllNodeIds(currentTree'[s])
             /\ getAllNodeIds(currentTree[s]) \subseteq getAllNodeIds(currentTree'[s])
    ]_vars

\* the ids of the nodes of `tree` that have children and status pending
PendingParents(tree) ==
  LET all == getAllNodes(tree)
  IN { all[i].id : i \in { j \in 1..Len(all) :
                             all[j].children /= <<>> /\ all[j].status = "pending" } }

\* C22: a node with children is not pending for longer than one step of its
\* session: no node has children and status pending both before and after a
\* step of the session's generator.
C22_ParentsNotPending ==
  [][ \A s \in Sessions :
        (pc'[s] /= pc[s] \/ lastEvent'[s] /= lastEvent[s]) =>
          PendingParents(currentTree[s]) \cap PendingParents(currentTree'[s]) = {}
    ]_vars

\* the tree has a childless node with status pending
PendingLeavesLeft(tree) ==
  LET all == getAllNodes(tree)
  IN \E i \in 1..Len(all) : all[i].children = <<>> /\ all[i].status = "pending"

\* C23 as stated: a complete event is only emitted for a tree with no
\* pending leaf.
C23_CompleteMeansResolved ==
  \A s \in Sessions :
    Emitted(s, "complete") => ~PendingLeavesLeft(EventOf(s).tree[1])

\* C23: a complete event is emitted for a tree with no pending leaf, or after
\* the while loop has made maxIterations passes.
C23_CompleteResolvedOrCeiling ==
  \A s \in Sessions :
    Emitted(s, "complete") =>
      /\ EventOf(s).tree = Some(currentTree[s])
      /\ ~PendingLeavesLeft(currentTree[s]) \/ iterationCount[s] = maxIterations

\* a session completed at the ceiling with a leaf still pending
C23_Witness ==
  \E s \in Sessions :
    /\ Emitted(s, "complete")
    /\ iterationCount[s] = maxIterations
    /\ PendingLeavesLeft(currentTree[s])

\* C24: when the flag was set while a call of the session's service was in
\* flight and the session then ends with terminated, the tree of the
\* terminated event is the tree as it was when the flag was set: what the call
\* returned is not in it.
C24_InFlightResultDiscarded ==
  \A s \in Sessions :
    (Emitted(s, "terminated") /\ treeAtRequest[s] /= None) =>
      EventOf(s).tree = treeAtRequest[s]

EmitsUnderFlag(s) ==
  shouldTerminate /\ InFlight(s) /\ lastEvent'[s] /= lastEvent[s]

\* C26 as stated: while the flag is set a running session emits no judge_node
\* pre-call event, and the terminal event it emits is terminated.
C26_FlagEndsInTerminated ==
  [][ \A s \in Sessions :
        EmitsUnderFlag(s) =>
          /\ ~(lastEvent'[s][1].type = "judge_node" /\ lastEvent'[s][1].result = Some(FALSE))
          /\ lastEvent'[s][1].type \in TerminalTypes => lastEvent'[s][1].type = "terminated"
    ]_vars

\* C26: while the flag is set a running session emits no judge_node pre-call
\* event; the terminal event it emits is terminated, except that a call in
\* flight that rejects on the root expansion or a classification ends it with
\* error, and that the pass that was running when the flag was set, if it is
\* the last one the ceiling allows, ends it with complete.
C26_FlagStopsLeaves ==
  [][ \A s \in Sessions :
        EmitsUnderFlag(s) =>
          /\ ~(lastEvent'[s][1].type = "judge_node" /\ lastEvent'[s][1].result = Some(FALSE))
          /\ lastEvent'[s][1].type = "error" =>
               pc[s] \in {"await_root", "await_judge"} /\ failure'[s] /= "none"
          /\ lastEvent'[s][1].type = "complete" =>
               pc[s] = "progress" /\ iterationCount'[s] = maxIterations
    ]_vars

\* a session whose flag was set during an expansion of its second pass
\* ended with terminated at the head of the third
C26_Witness ==
  \E s \in Sessions :
    /\ pc[s] = "done" /\ Emitted(s, "terminated") /\ shouldTerminate
    /\ treeAtRequest[s] /= None
    /\ iterationCount[s] = 2 /\ expansions[s] = 2

\* judge_node events: the one before the call and the one with its result
IsPreCall(e) == e.type = "judge_node" /\ e.result = Some(FALSE)
IsResult(e) == e.type = "judge_node" /\ e.result = Some(TRUE)

\* event e2 may directly follow event e1 of the same session; `root` tells
\* whether e1 belongs to the root expansion rather than to a leaf
MayFollow(e1, e2, root) ==
  CASE e1.type = "start" -> e2.type = "decompose_node" /\ e2.nodeId = Some(<<"root">>)
    [] e1.type = "decompose_node" /\ root -> e2.type \in {"update_tree", "terminated", "error"}
    [] e1.type = "decompose_node" /\ ~root ->
         e2.type = "update_tree" \/ (IsResult(e2) /\ e2.nodeId = e1.nodeId)
    [] e1.type = "update_tree" /\ root -> IsPreCall(e2) \/ e2.type \in {"complete", "terminated"}
    [] e1.type = "update_tree" /\ ~root -> e2.type = "progress"
    [] IsPreCall(e1) ->
         \/ IsResult(e2) /\ e2.nodeId = e1.nodeId
         \/ e2.type = "decompose_node" /\ e2.nodeId = e1.nodeId
         \/ e2.type = "error"
    [] IsResult(e1) -> e2.type = "progress"
    [] e1.type = "progress" -> IsPreCall(e2) \/ e2.type \in {"complete", "terminated"}
    [] OTHER -> FALSE

\* C27: the events of a session come in a fixed order. The first is start and
\* start does not occur again; a leaf's judge_node pre-call is followed by
\* its judge_node result or by its decompose_node, the decompose_node by
\* update_tree or by the degrading judge_node result, and each of these by one
\* progress event; a decompose_node for a node other than the announced root
\* directly follows the judge_node pre-call of that node.
C27_EventOrder ==
  [][ \A s \in Sessions :
        lastEvent'[s] /= lastEvent[s] =>
          IF lastEvent[s] = None
            THEN lastEvent'[s][1].type = "start"
            ELSE /\ lastEvent'[s][1].type /= "start"
                 /\ MayFollow(lastEvent[s][1], lastEvent'[s][1],
                              pc[s] \in {"decompose_root", "await_root", "update_tree"})
                 /\ (lastEvent'[s][1].type = "decompose_node" /\ lastEvent[s][1].type /= "start") =>
                      IsPreCall(lastEvent[s][1]) /\ lastEvent[s][1].nodeId = lastEvent'[s][1].nodeId
    ]_vars

\* a leaf whose expansion failed has had its pre-call, its decompose_node, its
\* degrading result and its progress event
C27_Witness ==
  \E s \in Sessions :
    /\ Emitted(s, "progress") /\ pc[s] = "progress"
    /\ leafNode(s).id /= <<"root">>
    /\ leafNode(s).id \in announced[s]
    /\ leafNode(s).id \notin answered[s]
    /\ expansions[s] = 0

\* executeWorkflow(inputText, mode): the text and the mode a session was
\* started with
inputText == InitialTree.content
modeOf(s) == IF s = Main THEN "concept" ELSE "task"

\* the arguments of decomposeTask(text, originalTask, mode, isRootDecomposition)
\* at its two call sites
rootCallArgs(s) ==
  [text |-> inputText, originalTask |-> inputText, mode |-> modeOf(s),
   isRootDecomposition |-> TRUE]

nodeCallArgs_LeafAsContext(s) ==
  [text |-> leafNode(s).content, originalTask |-> leafNode(s).content, mode |-> modeOf(s),
   isRootDecomposition |-> FALSE]

nodeCallArgs(s) ==
  [text |-> leafNode(s).content, originalTask |-> inputText, mode |-> modeOf(s),
   isRootDecomposition |-> FALSE]

\* the arguments of the expansion call that is in flight
decomposeTaskArgs(s) == IF pc[s] = "await_root" THEN rootCallArgs(s) ELSE nodeCallArgs(s)

\* the id of the node the call in flight expands
ExpandedId(s) == IF pc[s] = "await_root" THEN <<"root">> ELSE leafNode(s).id

ExpansionInFlight(s) == pc[s] \in {"await_root", "await_node"}

\* C28 as stated: every expansion call gets the session's text as context and
\* the session's mode, and isRoot is true exactly when the expanded node is
\* the root of the tree.
C28_IsRootIffRootNode ==
  \A s \in Sessions :
    ExpansionInFlight(s) =>
      /\ decomposeTaskArgs(s).originalTask = inputText
      /\ decomposeTaskArgs(s).mode = modeOf(s)
      /\ decomposeTaskArgs(s).isRootDecomposition <=> ExpandedId(s) = currentTree[s].id

\* C28: every expansion call gets the session's text as context and the
\* session's mode, and isRoot is true exactly for the session's first
\* expansion, the one made on the tree the session started with.
C28_IsRootIffInitial ==
  \A s \in Sessions :
    ExpansionInFlight(s) =>
      /\ decomposeTaskArgs(s).originalTask = inputText
      /\ decomposeTaskArgs(s).mode = modeOf(s)
      /\ decomposeTaskArgs(s).isRootDecomposition <=> currentTree[s] = InitialTree
      /\ ~decomposeTaskArgs(s).isRootDecomposition => decomposeTaskArgs(s).text = leafNode(s).content

\* the root came back childless from the first expansion and is now being
\* expanded as a leaf
C28_Witness ==
  \E s \in Sessions :
    /\ pc[s] = "await_node"
    /\ leafNode(s).id = currentTree[s].id
    /\ leafNode(s).content /= inputText

\* the number of nodes of `tree` whose status is in `statuses`
RECURSIVE StatusCount(_, _)
StatusCount(tree, statuses) ==
  LET RECURSIVE below(_)
      below(i) == IF i = 0 THEN 0 ELSE StatusCount(tree.children[i], statuses) + below(i - 1)
  IN (IF tree.status \in statuses THEN 1 ELSE 0) + below(Len(tree.children))

AllStatuses == {"pending", "need_decomposition", "completed", "can_answer"}

\* p / t * 100 rounded to the nearest integer, halves up
RoundedPct(p, t) == CHOOSE n \in 0..100 : 2 * n * t - t <= 200 * p /\ 200 * p < 2 * n * t + t

\* C29: the state of every event that carries one is derived from the tree at
\* the moment the event is emitted (totalNodes counts its nodes,
\* processedNodes those with status completed or can_answer, isComplete says
\* that none is pending or need_decomposition), and every progress value, in
\* a progress event and in a frame, is processedNodes / totalNodes * 100
\* rounded, within 0..100.
C29_StateFromTree ==
  [][ \A s \in Sessions :
        (lastEvent'[s] /= lastEvent[s] /\ lastEvent'[s][1].state /= None) =>
          LET e == lastEvent'[s][1]
              st == e.state[1]
              tree == currentTree'[s]
              pct == RoundedPct(st.processedNodes, st.totalNodes)
          IN /\ st.totalNodes = StatusCount(tree, AllStatuses)
             /\ st.processedNodes = StatusCount(tree, {"completed", "can_answer"})
             /\ st.isComplete <=> StatusCount(tree, {"pending", "need_decomposition"}) = 0
             /\ e.progress /= None => e.progress[1] = pct /\ pct \in 0..100
             /\ (lastFrame'[s] /= lastFrame[s] /\ lastFrame'[s][1].progress /= None) =>
                  lastFrame'[s][1].progress[1] = pct
    ]_vars

\* C30: the state of a complete event has isComplete = true and
\* processedNodes = totalNodes, in agreement with the progress 100 of the
\* complete frame and of the store that applies it.
C30_CompleteStateIsComplete ==
  \A s \in Sessions :
    Emitted(s, "complete") =>
      /\ EventOf(s).state[1].isComplete
      /\ EventOf(s).state[1].processedNodes = EventOf(s).state[1].totalNodes
      /\ streamData(EventOf(s)).progress = Some(100)
      /\ applyFrame(store, streamData(EventOf(s))).decomposingProgress = 100

\* C31: from the moment a call of startStreamDecomposition or
\* redecomposeFromNode begins a session until that session's own terminal
\* frame, abort or failure, the store has isDecomposing = TRUE and holds that
\* session's controller; no handler of an earlier session clears them.
C31_SessionHoldsToken ==
  \A k \in Fetches :
    (latest = Some(k) /\ streams[k].phase = "reading" /\ ~streams[k].ended)
      => (store.isDecomposing /\ store.currentAbortController = Some(k))

\* C35: in every reachable state of the store isDecomposing is TRUE exactly
\* when the store holds a controller, whatever sessions were started,
\* re-decomposed, cancelled or reset and whatever frames were applied.
C35_DecomposingIffToken ==
  store.isDecomposing <=> (store.currentAbortController /= None)

\* a reset store while a call that has applied a tree is still reading
C35_Witness ==
  /\ store = InitialStore
  /\ \E k \in Fetches :
       /\ streams[k].phase = "reading"
       /\ streams[k].last /= None
       /\ streams[k].last[1].treeData /= None

\* C32: once the response stream of the session started last has ended (its
\* terminal frame was applied, it closed without one, or reading it failed)
\* the store has isDecomposing = FALSE.
C32_EndedStreamLeavesDecomposing ==
  \A k \in Fetches :
    (latest = Some(k) /\ streams[k].phase \in {"returned", "threw"})
      => ~store.isDecomposing

\* C37: a graft of a re-decomposition of node X changes only the children of
\* X: with the children of X taken away the tree mirror is the same before
\* and after (X keeps its id and content, every node outside its subtree is
\* unchanged); the nodes below X are as many as the nodes below the root of
\* the frame's tree, whose root is not inserted; when X is not in the tree
\* mirror the tree is left as it is.  The call itself only empties X.
C37_GraftChangesOnlyChildren ==
  [][\A k \in Fetches :
       /\ (/\ AppliesFrame(k, "redecompose")
           /\ grafts(store, streams'[k].last[1], "redecompose")) =>
            LET X == streams[k].nodeId[1]
                before == store.treeData[1]
                after == store'.treeData[1]
                frameTree == streams'[k].last[1].treeData[1]
            IN IF X \in getAllNodeIds(before)
                 THEN /\ clearChildren(after, X) = clearChildren(before, X)
                      /\ Cardinality(DescendantsOf(after, X)) = Len(getAllNodes(frameTree)) - 1
                 ELSE after = before
       /\ (streams[k].phase = "none" /\ streams'[k].kind = "redecompose") =>
            LET X == streams'[k].nodeId[1]
            IN /\ Outside(store'.treeData[1], X) = Outside(store.treeData[1], X)
               /\ DescendantsOf(store'.treeData[1], X) = {}
    ]_vars

\* an update frame of a re-decomposition of root-1 has been grafted: root-1
\* has nodes below it and root-2 is still next to it
C37_Witness ==
  \E k \in Fetches :
    /\ streams[k].kind = "redecompose" /\ streams[k].nodeId = Some(<<"root", 1>>)
    /\ streams[k].reads = 1 /\ streams[k].last[1].type = "update"
    /\ store.treeData /= None
    /\ DescendantsOf(store.treeData[1], <<"root", 1>>) /= {}
    /\ <<"root", 2>> \in getAllNodeIds(store.treeData[1])

\* C33: the step that starts a session leaves the shared termination flag
\* cleared and emits start as the session's first event; a session ends with
\* terminated only if a termination request was made while it was running, so
\* a request made while no session runs does not terminate a later session.
C33_StartClearsFlag ==
  /\ [][\A s \in Sessions :
          (pc[s] = "idle" /\ pc'[s] /= "idle") =>
            (~shouldTerminate' /\ lastEvent[s] = None /\ lastEvent'[s][1].type = "start")
       ]_vars
  /\ [](\A s \in Sessions : Emitted(s, "terminated") => flagSeen[s])

\* a termination request was made before the session started and none since;
\* the session has passed checkpoints and is classifying a leaf
C33_Witness ==
  \E s \in Sessions :
    /\ requests >= 1
    /\ ~flagSeen[s]
    /\ \A t \in Sessions \ {s} : pc[t] = "idle"
    /\ pc[s] = "await_judge"
    /\ expansions[s] >= 1
    /\ ~shouldTerminate

\* C34: the blocking decompose route answers with a tree only when the
\* session it drained emitted complete; when that session ended with
\* terminated the answer is the HTTP 503 error, without the partial tree the
\* terminated event carried.
C34_TerminatedAnswers503 ==
  \A s \in Sessions :
    endpoint[s] = "decompose" =>
      /\ (pc[s] = "done" /\ Emitted(s, "terminated")) =>
           /\ response[s] /= None
           /\ response[s][1].status = 503
           /\ response[s][1].root = None
           /\ response[s][1].error /= None
      /\ (response[s] /= None /\ response[s][1].root /= None) => Emitted(s, "complete")

\* the route has answered 503 for a session that was terminated with a tree
\* of several nodes
C34_Witness ==
  \E s \in Sessions :
    /\ endpoint[s] = "decompose" /\ pc[s] = "done"
    /\ Emitted(s, "terminated")
    /\ EventOf(s).tree /= None
    /\ Len(getAllNodes(EventOf(s).tree[1])) >= 2
    /\ response[s] /= None /\ response[s][1].status = 503

\* the nodes of a tree that have status can_answer
CanAnswerNodes(tree) ==
  LET all == getAllNodes(tree)
  IN {all[i] : i \in {j \in 1..Len(all) : all[j].status = "can_answer"}}

\* C36: within a session a node that has status can_answer is in every later
\* tree with the same id, that status, canDirectlyAnswer = TRUE and no
\* children; no judge_node pre-call and no decompose_node is emitted for it
\* again; processedNodes and totalNodes never go down from one event of the
\* session to the next.
C36_CanAnswerIsFinal ==
  [][\A s \in Sessions :
       /\ currentTree'[s] /= currentTree[s] =>
            LET later == CanAnswerNodes(currentTree'[s])
            IN /\ \A m \in later : m.canDirectlyAnswer /\ m.children = <<>>
               /\ \A n \in CanAnswerNodes(currentTree[s]) : \E m \in later : m.id = n.id
       /\ (lastEvent'[s] /= lastEvent[s] /\ lastEvent'[s] /= None) =>
            LET e == lastEvent'[s][1]
            IN /\ (IsPreCall(e) \/ e.type = "decompose_node") =>
                    e.nodeId[1] \notin {n.id : n \in CanAnswerNodes(currentTree[s])}
               /\ (lastEvent[s] /= None /\ lastEvent[s][1].state /= None /\ e.state /= None) =>
                    /\ e.state[1].processedNodes >= lastEvent[s][1].state[1].processedNodes
                    /\ e.state[1].totalNodes >= lastEvent[s][1].state[1].totalNodes
    ]_vars

\* a leaf was classified can_answer and a sibling was expanded afterwards: the
\* session has emitted update_tree for a tree that holds the can_answer node
C36_Witness ==
  \E s \in Sessions :
    /\ Emitted(s, "update_tree")
    /\ expansions[s] >= 2
    /\ CanAnswerNodes(currentTree[s]) /= {}
    /\ EventOf(s).state[1].processedNodes >= 1

\* a write of the route of session s has failed on a channel its consumer had
\* left, and the route has not yet been given another event
WriteFailed(s) ==
  controller[s] = "cancelled" /\ isStreamClosed[s] /\ pc[s] /= "done"

\* C38: after a write has failed because the consumer has disconnected, the
\* route writes no further frame, and the next event the orchestrator yields
\* is the last: the session is abandoned there, after at most one further
\* call of a service, and it yields no event after that one.
C38_AbandonedAtNextEvent ==
  [][\A s \in Sessions :
       /\ WriteFailed(s) =>
            /\ lastFrame'[s] = lastFrame[s]
            /\ lastEvent'[s] /= lastEvent[s] => pc'[s] = "done"
            /\ calls'[s] < calls[s] => pc'[s] = "done"
       /\ (pc[s] = "done" /\ controller[s] = "cancelled") =>
            (lastEvent'[s] = lastEvent[s] /\ currentTree'[s] = currentTree[s])
    ]_vars

\* a progress frame was dropped on a channel its consumer had left, and the
\* session was abandoned at the judge_node pre-call that followed, with
\* pending leaves left in its tree
C38_Witness ==
  \E s \in Sessions :
    /\ controller[s] = "cancelled" /\ isStreamClosed[s]
    /\ pc[s] = "done"
    /\ nTerminal[s] = 0
    /\ lastEvent[s] /= None /\ IsPreCall(EventOf(s))
    /\ expansions[s] >= 2
    /\ PendingLeavesLeft(currentTree[s])

\* the body arrives in two chunks and the first one ends inside the JSON text
\* of a frame
CutInsideJSON ==
  /\ Len(wire) = 2
  /\ \E n \in 1..Len(sent) :
       LET off == Len(encodeAll(SubSeq(sent, 1, n - 1))) + Len(DataPrefix)
       IN Len(wire[1]) > off /\ Len(wire[1]) < off + Len(JSONstringify(sent[n]))

\* C6: when a frame arrives split across two reads at an offset inside its
\* JSON text, the read loop has, once the stream is read to its end,
\* dispatched on exactly the frames that were sent, each once, in order.
C6_FramesSurviveChunking ==
  (reader = "done" /\ CutInsideJSON) => applied = sent

====
